---- MODULE Spec2Model ----
(***************************************************************************)
(* A model of jirafs' dynamic namespace (src/jira.go): the IssueView draft *)
(* state and its `ctl commit` handler, the close-commit write sessions of  *)
(* the comment views, the root view's named searches, the field files of  *)
(* a committed issue (plain fields, `links`, `status`) with the workflow   *)
(* resolver behind `status`, the issue listings and the IssueViews their   *)
(* `new` entry hands out, the project and worklog views, and the three     *)
(* mutexes of the namespace.                                               *)
(*                                                                         *)
(* Strings are sequences of one-character strings, so that the removal of  *)
(* newlines (strings.Replace(s, "\n", "", -1)) is computed, not assumed.   *)
(* Every critical section of the code holds its mutex over plain memory    *)
(* accesses only (no tracker call, no second lock), so a critical section  *)
(* is one atomic step; every tracker call is a step of its own.  That the  *)
(* critical sections are of this kind is itself established, with Lock and *)
(* Unlock as steps, in the part on the mutexes.                            *)
(***************************************************************************)
EXTENDS Naturals, Sequences, FiniteSets

VARIABLES
    \* IssueView (jira.go:202-209)
    newIssue,       \* iw.newIssue
    issueNo,        \* iw.issueNo
    project,        \* iw.project
    values,         \* iw.values (a nil map reads as the empty map)
    \* the requests running the commit handler
    cpc,            \* position of each request in the commit handler
    loc,            \* the handler's local variables
    normalCtls,     \* issue keys captured by the ctl files normalWalk handed out
    \* the tracker, as far as the handlers see it
    nCreate,        \* CreateIssue calls made so far
    nAssign,        \* assignments to iw.issueNo made so far
    nCommits,       \* commit handlers started so far
    nCloses,        \* draft files closed so far
    \* JiraView (jira.go:927-930) and its SearchViews (jira.go:626-630)
    searches,       \* jw.searches: name -> SearchView (0: no entry)
    views,          \* sw.results of each SearchView created so far
    nViews,         \* SearchViews put into jw.searches so far
    found,          \* what the tracker answers to the search query right now
    rpc,            \* position of each request in a search or a listing
    rloc,           \* that request's local variables
    \* the comments of one issue and the write session followed
    comments,       \* ids of the comments the tracker holds
    nAdded,         \* comment ids the tracker has given out
    sess,           \* the `comment` file walked to last, and its handle
    \* the `links` file of one issue (jira.go:473-519)
    trLinks,        \* the issue links the tracker holds for the issue, in its order
    nextLink,       \* the id the tracker gives the next link
    lk,             \* the `links` file walked to, and the onClose run on its close
    \* the `status` file of one issue (jira.go:528-571)
    trStatus,       \* the status the tracker holds for the issue
    wf,             \* the workflow graph of the issue's type
    sx,             \* the `status` file walked to, and the onClose run on its close
    \* the issue listings (jira.go:686-720, 817-925)
    trIssues,       \* the keys of the issues the tracker holds
    lv,             \* the latest listing, and the directory and key file walked to
    \* the field files of one issue (jira.go:330-427, 573-592)
    remote,         \* the value the tracker holds for each field
    fs,             \* the field file each client walked to, and its handle
    \* an issue list and the IssueViews its Walk of `new` created
    \* (jira.go:686-709, 817-822)
    dl,             \* the list's project and the IssueViews created so far
    dc,             \* the IssueView each client walked to, and what it does there
    \* the project views and the worklog views (jira.go:17-87, 722-813)
    trProjects,     \* the keys of the projects the tracker holds
    trWorklogs,     \* the ids of the worklogs the tracker holds for the issue
    nv,             \* the latest listing: its view and its entries
    \* the mutexes and the requests running in the handlers that take them
    holder,         \* who holds each mutex ("none": nobody)
    th,             \* each request's handler, its branch and its position
    \* the workflow resolver, called on its own
    pathIn,         \* the graph and the arguments of one Path call
    pathOut,        \* what the call returned
    \* the latest protocol operation step and the tracker call it made
    last,
    lastCall

issueVars == <<newIssue, issueNo, project, values, cpc, loc, normalCtls,
               nCreate, nAssign, nCommits, nCloses>>

rootVars == <<searches, views, nViews, found, rpc, rloc>>

fileVars == <<comments, nAdded, sess>>

linkVars == <<trLinks, nextLink, lk>>

\* The state of the normal-mode field files.
pathVars == <<pathIn, pathOut>>

statusVars == <<trStatus, wf, sx>>

listVars == <<trIssues, lv>>

fieldVars == <<remote, fs>>

draftVars == <<dl, dc>>

nodeVars == <<trProjects, trWorklogs, nv>>

lockVars == <<holder, th>>

lateVars == <<draftVars, nodeVars, lockVars>>

moreVars == <<linkVars, pathVars, statusVars, listVars, fieldVars, lateVars>>

vars == <<issueVars, rootVars, fileVars, moreVars, last, lastCall>>

(***************************************************************************)
(* Bounds and input sets.                                                  *)
(***************************************************************************)
MaxCommits == 3

MaxCloses == 2

MaxViews == 2

MaxComments == 2

MaxLen == 2

\* Lines a client may put into a `links` file.
MaxLines == 2

\* Transitions of a workflow graph, and the largest maxSteps tried.
MaxEdges == 2

MaxSteps == 2

\* Bytes a field file's buffer may hold.
MaxFieldLen == 3

Procs == {"p1", "p2"}

NL == "\n"

Empty == << >>

\* What a client may have in a draft file's buffer when it closes it.
DraftInputs(file) ==
    CASE file = "type"        -> { <<"t", NL>>, <<NL>> }
      [] file = "project"     -> { <<"a", NL>>, <<NL>> }
      [] file = "summary"     -> { <<"s", NL>> }
      [] file = "description" -> { <<"d", NL, "d">> }

\* The project a containing view hands to the IssueView it creates:
\* none (AllIssuesView) or its own (ProjectIssuesView).
InheritedProjects == { Empty, <<"c">> }

(***************************************************************************)
(* Pure helpers.                                                           *)
(***************************************************************************)
\* strings.Replace(s, "\n", "", -1)
StripNewlines(s) == SelectSeq(s, LAMBDA c : c # NL)

newFiles == {"ctl", "description", "type", "summary", "project"}

draftFiles == newFiles \ {"ctl"}

normalFiles == {"assignee", "creator", "ctl", "description", "type", "key",
                "reporter", "status", "summary", "labels", "transition",
                "priority", "resolution", "raw", "progress", "links",
                "components", "project"}

normalDirs == {"comments", "worklog"}

\* The key the tracker gives the n-th issue it is asked to create.
KeyOf(n) == <<"K", n>>

NoCall == [name |-> "none", key |-> Empty, type |-> Empty, project |-> Empty,
           summary |-> Empty, description |-> Empty, body |-> Empty, ans |-> "ok"]

Call(n, k) == [NoCall EXCEPT !.name = n, !.key = k]

\* The same call, answered by the tracker with an error.
Refused(c) == [c EXCEPT !.ans = "error"]

\* The tracker calls that change the tracker's state (spec section 6).
MutatingCalls == {"CreateIssue", "DeleteIssue", "SetFieldInIssue", "SetIssueRaw",
                  "TransitionIssue", "LinkIssues", "DeleteIssueLink",
                  "AddComment", "SetComment", "RemoveComment"}

NoLoc == [isNew |-> FALSE, issuetype |-> Empty, summary |-> Empty,
          description |-> Empty, project |-> Empty, key |-> Empty]

OpOut(o, p, a, r, x) == [op |-> o, who |-> p, arg |-> a, res |-> r, out |-> x]

Op(o, p, a, r) == OpOut(o, p, a, r, Empty)

(***************************************************************************)
(* IssueView.newWalk, the "commit" command of ctl (jira.go:233-279).       *)
(***************************************************************************)
\* 236-244: under issueLock, isNew and the draft values are read.
CommitRead(p) ==
    /\ cpc[p] = "idle"
    /\ nCommits < MaxCommits
    /\ nCommits' = nCommits + 1
    /\ loc' = [loc EXCEPT ![p] =
                 [isNew       |-> newIssue,
                  issuetype   |-> StripNewlines(values["type"]),
                  summary     |-> StripNewlines(values["summary"]),
                  description |-> values["description"],
                  project     |-> StripNewlines(values["project"]),
                  key         |-> Empty]]
    /\ cpc' = [cpc EXCEPT ![p] = "read"]
    /\ last' = Op("ctlwrite", p, "commit", "running")
    /\ lastCall' = NoCall
    /\ UNCHANGED <<newIssue, issueNo, project, values, normalCtls, nCreate, nAssign, nCloses>>

\* A handler that forgets the inherited project.
ResolveProjectOwnOnly(own, inherited) == own

\* 246-248: the project falls back to the one the view inherited.
ResolveProject(own, inherited) ==
    IF own = Empty /\ inherited # Empty THEN inherited ELSE own

\* 246-248: iw.project is read outside the lock.
CommitResolve(p) ==
    /\ cpc[p] = "read"
    /\ loc' = [loc EXCEPT ![p].project = ResolveProject(loc[p].project, project)]
    /\ cpc' = [cpc EXCEPT ![p] = "resolved"]
    /\ last' = Op("ctlwrite", p, "commit", "running")
    /\ lastCall' = NoCall
    /\ UNCHANGED <<newIssue, issueNo, project, values, normalCtls, nCreate, nAssign, nCommits, nCloses>>

\* 250: the test that ends the handler.
AlreadyCommittedNever(isNew) == FALSE

AlreadyCommitted(isNew) == ~isNew

\* 250-252: errors.New("issue already committed")
CommitReject(p) ==
    /\ cpc[p] = "resolved"
    /\ AlreadyCommitted(loc[p].isNew)
    /\ cpc' = [cpc EXCEPT ![p] = "idle"]
    /\ loc' = [loc EXCEPT ![p] = NoLoc]
    /\ last' = Op("ctlwrite", p, "commit", "AlreadyCommitted")
    /\ lastCall' = NoCall
    /\ UNCHANGED <<newIssue, issueNo, project, values, normalCtls, nCreate, nAssign, nCommits, nCloses>>

\* 254-265: the issue handed to CreateIssue.
CreateCall(l) ==
    [name |-> "CreateIssue", key |-> Empty, type |-> l.issuetype,
     project |-> l.project, summary |-> l.summary, description |-> l.description,
     body |-> Empty, ans |-> "ok"]

\* 267: CreateIssue succeeds and returns the new issue's key.
CommitCreateOk(p) ==
    /\ cpc[p] = "resolved"
    /\ ~AlreadyCommitted(loc[p].isNew)
    /\ nCreate' = nCreate + 1
    /\ loc' = [loc EXCEPT ![p].key = KeyOf(nCreate + 1)]
    /\ cpc' = [cpc EXCEPT ![p] = "created"]
    /\ last' = Op("ctlwrite", p, "commit", "running")
    /\ lastCall' = CreateCall(loc[p])
    /\ UNCHANGED <<newIssue, issueNo, project, values, normalCtls, nAssign, nCommits, nCloses>>

\* A handler that flips the view although CreateIssue failed.
CommitCreateFailFlips(p) ==
    /\ cpc[p] = "resolved"
    /\ ~AlreadyCommitted(loc[p].isNew)
    /\ nCreate' = nCreate + 1
    /\ cpc' = [cpc EXCEPT ![p] = "idle"]
    /\ loc' = [loc EXCEPT ![p] = NoLoc]
    /\ newIssue' = FALSE
    /\ project' = loc[p].project
    /\ last' = Op("ctlwrite", p, "commit", "RemoteError")
    /\ lastCall' = Refused(CreateCall(loc[p]))
    /\ UNCHANGED <<issueNo, values, normalCtls, nAssign, nCommits, nCloses>>

\* 267-271: CreateIssue fails and the error is returned.
CommitCreateFail(p) ==
    /\ cpc[p] = "resolved"
    /\ ~AlreadyCommitted(loc[p].isNew)
    /\ nCreate' = nCreate + 1
    /\ cpc' = [cpc EXCEPT ![p] = "idle"]
    /\ loc' = [loc EXCEPT ![p] = NoLoc]
    /\ last' = Op("ctlwrite", p, "commit", "RemoteError")
    /\ lastCall' = Refused(CreateCall(loc[p]))
    /\ UNCHANGED <<newIssue, issueNo, project, values, normalCtls, nAssign, nCommits, nCloses>>

\* 273-278: under issueLock, the view takes the key and leaves new mode.
CommitAssign(p) ==
    /\ cpc[p] = "created"
    /\ issueNo' = loc[p].key
    /\ project' = loc[p].project
    /\ newIssue' = FALSE
    /\ nAssign' = nAssign + 1
    /\ cpc' = [cpc EXCEPT ![p] = "idle"]
    /\ loc' = [loc EXCEPT ![p] = NoLoc]
    /\ last' = Op("ctlwrite", p, "commit", "ok")
    /\ lastCall' = NoCall
    /\ UNCHANGED <<values, normalCtls, nCreate, nCommits, nCloses>>

(***************************************************************************)
(* IssueView.newWalk, the draft files (jira.go:282-304).                   *)
(***************************************************************************)
\* 295-301: onClose of a draft file stores the buffer under issueLock.  The
\* file may have been walked to at any time since the view was created.
DraftClose(p, file, content) ==
    /\ nCloses < MaxCloses
    /\ nCloses' = nCloses + 1
    /\ values' = [values EXCEPT ![file] = content]
    /\ last' = Op("close", p, file, "ok")
    /\ lastCall' = NoCall
    /\ UNCHANGED <<newIssue, issueNo, project, cpc, loc, normalCtls, nCreate, nAssign, nCommits>>

InitIssue ==
    /\ newIssue = TRUE
    /\ issueNo = Empty
    /\ project \in InheritedProjects
    /\ values = [f \in draftFiles |-> Empty]
    /\ cpc = [p \in Procs |-> "idle"]
    /\ loc = [p \in Procs |-> NoLoc]
    /\ normalCtls = {}
    /\ nCreate = 0
    /\ nAssign = 0
    /\ nCommits = 0
    /\ nCloses = 0
    /\ last = Op("none", "any", "", "ok")
    /\ lastCall = NoCall

(***************************************************************************)
(* JiraView, the root of the namespace (jira.go:927-1116).  Walk, List and *)
(* Remove run under searchLock from start to end and call no tracker.      *)
(***************************************************************************)
\* The names a client tries at the root; "x" is never the name of a search.
RootNames == {"ctl", "projects", "issues", "help", "structure", "s", "x"}

\* The names a client gives its searches.
SearchNames == {"s", "ctl"}

\* The key sequences the tracker may answer a search with.
KeyLists == { <<"A-1">>, <<"A-2", "A-1">> }

\* The names a client tries inside a search directory.
IssueNames == {"A-1", "A-2", "A-3"}

Range(q) == { q[i] : i \in 1..Len(q) }

NoRloc == [name |-> "", view |-> 0, keys |-> Empty]

\* A Remove that protects every fixed entry but ctl.
IsFixedEntryButCtl(file) == file \in {"projects", "issues", "structure", "help"}

\* 1100: the entries Remove refuses to touch.
IsFixedEntry(file) == file \in {"ctl", "projects", "issues", "structure", "help"}

\* 939-1076: the switch of JiraView.Walk.
RootWalkResult(file) ==
    CASE file = "ctl"                     -> "commandfile"
      [] file \in {"projects", "issues"}  -> "dir"
      [] file \in {"structure", "help"}   -> "file"
      [] OTHER -> IF searches[file] # 0 THEN "dir" ELSE "NotFound"

\* 932-1077: JiraView.Walk
RootWalk(file) ==
    /\ last' = OpOut("walk", "any", file, RootWalkResult(file),
                     IF IsFixedEntry(file) THEN 0 ELSE searches[file])
    /\ lastCall' = NoCall
    /\ UNCHANGED rootVars

\* 1086-1089: the names of the searches, in the map's order.
SearchEntries == { n \in RootNames : searches[n] # 0 }

\* 1091-1093: the fixed entries of the root listing.
RootFixedEntries == {"projects", "issues", "ctl", "help", "structure"}

\* 1079-1096: JiraView.List
RootList ==
    /\ last' = OpOut("list", "any", "/", "ok", SearchEntries)
    /\ lastCall' = NoCall
    /\ UNCHANGED rootVars

\* A Remove that reports success and keeps the entry.
KeepEntry(tbl, file) == tbl

\* 1110: delete(jw.searches, file)
DeleteEntry(tbl, file) == [tbl EXCEPT ![file] = 0]

\* 1098-1116: JiraView.Remove
RootRemove(file) ==
    /\ lastCall' = NoCall
    /\ IF IsFixedEntry(file)
         THEN /\ last' = Op("remove", "any", file, "PermissionDenied")
              /\ UNCHANGED rootVars
         ELSE IF searches[file] # 0
                THEN /\ searches' = DeleteEntry(searches, file)
                     /\ last' = Op("remove", "any", file, "ok")
                     /\ UNCHANGED <<views, nViews, found, rpc, rloc>>
                ELSE /\ last' = Op("remove", "any", file, "ErrNoSuchFile")
                     /\ UNCHANGED rootVars

(***************************************************************************)
(* The "search" command of the root ctl (jira.go:942-956).                 *)
(***************************************************************************)
\* 943-945: fewer than two arguments.
SearchQueryMissing(p) ==
    /\ rpc[p] = "idle"
    /\ last' = Op("ctlwrite", p, "search", "query missing")
    /\ lastCall' = NoCall
    /\ UNCHANGED rootVars

\* 947-948, 632-641: a new SearchView runs its query and keeps the keys.
SearchRun(p, name) ==
    /\ rpc[p] = "idle"
    /\ nViews < MaxViews
    /\ rpc' = [rpc EXCEPT ![p] = "searched"]
    /\ rloc' = [rloc EXCEPT ![p] = [name |-> name, view |-> 0, keys |-> found]]
    /\ last' = Op("ctlwrite", p, name, "running")
    /\ lastCall' = Call("GetKeysForSearch", Empty)
    /\ UNCHANGED <<searches, views, nViews, found>>

\* 948-950, 633-636: the query fails and the command returns the error.
SearchRunFail(p, name) ==
    /\ rpc[p] = "idle"
    /\ last' = Op("ctlwrite", p, name, "RemoteError")
    /\ lastCall' = Refused(Call("GetKeysForSearch", Empty))
    /\ UNCHANGED rootVars

\* 952-955: under searchLock the view is entered under its name.
SearchInsert(p) ==
    /\ rpc[p] = "searched"
    /\ nViews < MaxViews
    /\ nViews' = nViews + 1
    /\ views' = [views EXCEPT ![nViews + 1] = rloc[p].keys]
    /\ searches' = [searches EXCEPT ![rloc[p].name] = nViews + 1]
    /\ rpc' = [rpc EXCEPT ![p] = "idle"]
    /\ rloc' = [rloc EXCEPT ![p] = NoRloc]
    /\ last' = OpOut("ctlwrite", p, rloc[p].name, "ok", nViews + 1)
    /\ lastCall' = NoCall
    /\ UNCHANGED found

\* The tracker's data changes under the search.
TrackerChange(keys) ==
    /\ keys # found
    /\ found' = keys
    /\ last' = Op("env", "any", "", "ok")
    /\ lastCall' = NoCall
    /\ UNCHANGED <<searches, views, nViews, rpc, rloc>>

(***************************************************************************)
(* SearchView (jira.go:626-680).  A view stays usable through a directory  *)
(* walked to while it was entered in the root, so every view created so    *)
(* far can be listed and walked.                                           *)
(***************************************************************************)
\* 670-671, 633: List runs the query.
ListFetch(p, v) ==
    /\ rpc[p] = "idle"
    /\ rpc' = [rpc EXCEPT ![p] = "fetched"]
    /\ rloc' = [rloc EXCEPT ![p] = [name |-> "", view |-> v, keys |-> found]]
    /\ last' = Op("svlist", p, v, "running")
    /\ lastCall' = Call("GetKeysForSearch", Empty)
    /\ UNCHANGED <<searches, views, nViews, found>>

\* 671-673, 633-636: the query fails and List returns the error.
ListFail(p, v) ==
    /\ rpc[p] = "idle"
    /\ last' = Op("svlist", p, v, "RemoteError")
    /\ lastCall' = Refused(Call("GetKeysForSearch", Empty))
    /\ UNCHANGED rootVars

\* 638-640: under resultLock the results are replaced.
ListStore(p) ==
    /\ rpc[p] = "fetched"
    /\ views' = [views EXCEPT ![rloc[p].view] = rloc[p].keys]
    /\ rpc' = [rpc EXCEPT ![p] = "stored"]
    /\ last' = Op("svlist", p, rloc[p].view, "running")
    /\ lastCall' = NoCall
    /\ UNCHANGED <<searches, nViews, found, rloc>>

\* 675-679: under resultLock the results are read again and returned.
ListReturn(p) ==
    /\ rpc[p] = "stored"
    /\ rpc' = [rpc EXCEPT ![p] = "idle"]
    /\ rloc' = [rloc EXCEPT ![p] = NoRloc]
    /\ last' = OpOut("svlist", p, rloc[p].view, "ok",
                     [entries |-> views[rloc[p].view], fetched |-> rloc[p].keys])
    /\ lastCall' = NoCall
    /\ UNCHANGED <<searches, views, nViews, found>>

\* A Walk that asks the tracker instead of the stored results.
WalkKeysFresh(v) == found

\* 645-647: the keys Walk resolves names against.
WalkKeys(v) == views[v]

\* 649-651: the name is none of the keys.
SearchWalkMiss(v, file) ==
    /\ file \notin Range(WalkKeys(v))
    /\ last' = Op("svwalk", "any", <<v, file>>, "ErrNoSuchFile")
    /\ lastCall' = NoCall
    /\ UNCHANGED rootVars

\* 653-667: the issue is fetched; the walk gives its directory, the
\* tracker's error, or "nil fields in issue".
SearchWalkHit(v, file, outcome) ==
    /\ file \in Range(WalkKeys(v))
    /\ last' = Op("svwalk", "any", <<v, file>>, outcome)
    /\ lastCall' = IF outcome = "RemoteError" THEN Refused(Call("GetIssue", file))
                                               ELSE Call("GetIssue", file)
    /\ UNCHANGED rootVars

InitRoot ==
    /\ searches = [n \in RootNames |-> 0]
    /\ views = [v \in 1..MaxViews |-> Empty]
    /\ nViews = 0
    /\ found \in KeyLists
    /\ rpc = [p \in Procs |-> "idle"]
    /\ rloc = [p \in Procs |-> NoRloc]

\* The state after `search s ...` has succeeded once.
InitSearch ==
    /\ searches = [n \in RootNames |-> IF n = "s" THEN 1 ELSE 0]
    /\ \E keys \in KeyLists :
           views = [v \in 1..MaxViews |-> IF v = 1 THEN keys ELSE Empty]
    /\ nViews = 1
    /\ found \in KeyLists
    /\ rpc = [p \in Procs |-> "idle"]
    /\ rloc = [p \in Procs |-> NoRloc]

(***************************************************************************)
(* IssueView.Walk and List (jira.go:595-624), the read side of normalWalk  *)
(* (jira.go:319-455) and the "delete" command of the normal ctl.           *)
(***************************************************************************)
\* The names a client tries inside an issue directory.
IssueWalkNames == {"ctl", "type", "key", "comments", "transition", "bogus"}

\* 330-455: what normalWalk hands out for a name once the issue is fetched.
NormalNode(file) ==
    CASE file \in normalDirs                   -> "dir"
      [] file = "ctl"                          -> "commandfile"
      [] file \in {"progress", "project", "key"} -> "file"
      [] OTHER                                 -> "closesaver"

\* 224-228, 319-323: a name the view does not have; no tracker call is made.
IssueWalkMissing(file) ==
    /\ file \notin (IF newIssue THEN newFiles ELSE normalFiles \cup normalDirs)
    /\ last' = Op("walk", "issueview", file, "NotFound")
    /\ lastCall' = NoCall
    /\ UNCHANGED issueVars

\* A Walk that serves the draft files whatever the mode.
IssueWalkNewAlways(file) ==
    /\ file \in newFiles
    /\ last' = Op("walk", "issueview", file,
                  IF file = "ctl" THEN "commandfile" ELSE "closesaver")
    /\ lastCall' = NoCall
    /\ UNCHANGED issueVars

\* 595-601, 230-304: in new mode the file comes from the draft.
IssueWalkNew(file) ==
    /\ newIssue
    /\ file \in newFiles
    /\ last' = Op("walk", "issueview", file,
                  IF file = "ctl" THEN "commandfile" ELSE "closesaver")
    /\ lastCall' = NoCall
    /\ UNCHANGED issueVars

\* 595-603, 325-455: in normal mode the issue is fetched from the tracker;
\* the ctl file keeps the fetched issue's key for its delete command.
IssueWalkNormal(file) ==
    /\ ~newIssue
    /\ file \in normalFiles \cup normalDirs
    /\ last' = Op("walk", "issueview", file, NormalNode(file))
    /\ lastCall' = Call(IF file = "transition" THEN "GetTransitionsForIssue"
                                               ELSE "GetIssue", issueNo)
    /\ normalCtls' = IF file = "ctl" THEN normalCtls \cup {issueNo} ELSE normalCtls
    /\ UNCHANGED <<newIssue, issueNo, project, values, cpc, loc,
                   nCreate, nAssign, nCommits, nCloses>>

\* 325-328, 408-412: GetIssue or GetTransitionsForIssue fails.
IssueWalkNormalFail(file) ==
    /\ ~newIssue
    /\ file \in normalFiles \cup normalDirs
    /\ last' = Op("walk", "issueview", file, "RemoteError")
    /\ \E c \in {"GetIssue"} \cup (IF file = "transition"
                                    THEN {"GetTransitionsForIssue"} ELSE {}) :
           lastCall' = Refused(Call(c, issueNo))
    /\ UNCHANGED issueVars

\* 607-624: IssueView.List
IssueList ==
    /\ last' = OpOut("list", "issueview", "issue", "ok",
                     IF newIssue THEN newFiles ELSE normalFiles \cup normalDirs)
    /\ lastCall' = NoCall
    /\ UNCHANGED issueVars

\* 449-453: the "delete" command of a ctl file normalWalk handed out.
NormalCtlDelete(key, res) ==
    /\ key \in normalCtls
    /\ last' = Op("ctlwrite", "any", "delete", res)
    /\ lastCall' = IF res = "ok" THEN Call("DeleteIssue", key)
                                  ELSE Refused(Call("DeleteIssue", key))
    /\ UNCHANGED issueVars

(***************************************************************************)
(* IssueCommentView (jira.go:155-200) and CommentView (jira.go:89-153) of  *)
(* one issue.  The tracker's comments are the ids in `comments`; what a    *)
(* comment's body is at a given moment is the tracker's choice.  One write *)
(* session on a `comment` file is followed at a time.                      *)
(***************************************************************************)
CommentIds == 1..MaxComments

\* The body the tracker returns for a comment.
Bodies == { <<"b">> }

\* What a client writes in one write request.
WriteData == { <<"x">>, <<NL>> }

NoSess == [kind |-> "none", id |-> 0, buf |-> Empty, st |-> "none",
           mode |-> "none", commits |-> 0]

SessDone == sess.st \in {"none", "closed", "gone"}

\* 161-170: Walk to `comment` gives an empty file that adds a comment on close.
CommentListWalkNew ==
    /\ SessDone
    /\ sess' = [NoSess EXCEPT !.kind = "add", !.st = "walked"]
    /\ last' = Op("walk", "any", "comment", "closesaver")
    /\ lastCall' = NoCall
    /\ UNCHANGED <<comments, nAdded>>

\* A Walk that removes the comment it should fetch.
CommentWalkCallRemove(id) == Call("RemoveComment", id)

\* 172: the tracker call of a Walk to a comment's id.
CommentWalkCall(id) == Call("GetComment", id)

\* 171-178: Walk to a comment's id fetches the comment.
CommentListWalkId(id) ==
    /\ last' = Op("walk", "any", id, IF id \in comments THEN "dir" ELSE "RemoteError")
    /\ lastCall' = IF id \in comments THEN CommentWalkCall(id)
                                        ELSE Refused(CommentWalkCall(id))
    /\ UNCHANGED fileVars

\* 181-191: IssueCommentView.List
CommentListList ==
    /\ last' = OpOut("list", "any", "comments", "ok",
                     [dirs |-> comments, files |-> {"comment"}])
    /\ lastCall' = Call("GetCommentsForIssue", Empty)
    /\ UNCHANGED fileVars

\* 182-185: GetCommentsForIssue fails.
CommentListListFail ==
    /\ last' = Op("list", "any", "comments", "RemoteError")
    /\ lastCall' = Refused(Call("GetCommentsForIssue", Empty))
    /\ UNCHANGED fileVars

\* 194-196: the `comment` file cannot be removed.
CommentListRemoveFile ==
    /\ last' = Op("remove", "any", "comment", "PermissionDenied")
    /\ lastCall' = NoCall
    /\ UNCHANGED fileVars

\* 197-198: Remove of anything else removes the comment of that id.
CommentListRemove(id) ==
    /\ comments' = comments \ {id}
    /\ last' = Op("remove", "any", id, IF id \in comments THEN "ok" ELSE "RemoteError")
    /\ lastCall' = IF id \in comments THEN Call("RemoveComment", id)
                                        ELSE Refused(Call("RemoveComment", id))
    /\ UNCHANGED <<nAdded, sess>>

\* 95-97: CommentView knows four names; no tracker call for any other.
CommentWalkMissing(id) ==
    /\ last' = Op("walk", "any", <<id, "bogus">>, "NotFound")
    /\ lastCall' = NoCall
    /\ UNCHANGED fileVars

\* 99-102: GetComment fails.
CommentWalkFail(id, file) ==
    /\ id \notin comments
    /\ last' = Op("walk", "any", <<id, file>>, "RemoteError")
    /\ lastCall' = Refused(Call("GetComment", id))
    /\ UNCHANGED fileVars

\* 108-109, 114-126, 146: author, updated and created are plain files.
CommentWalkPlain(id, file) ==
    /\ id \in comments
    /\ last' = Op("walk", "any", <<id, file>>, "file")
    /\ lastCall' = Call("GetComment", id)
    /\ UNCHANGED fileVars

\* 110-113, 125-144: `comment` holds the body and is saved on close.
CommentWalkComment(id, body) ==
    /\ id \in comments
    /\ SessDone
    /\ sess' = [NoSess EXCEPT !.kind = "set", !.id = id, !.buf = body, !.st = "walked"]
    /\ last' = Op("walk", "any", <<id, "comment">>, "closesaver")
    /\ lastCall' = Call("GetComment", id)
    /\ UNCHANGED <<comments, nAdded>>

\* 149-153: CommentView.List
CommentList ==
    /\ last' = OpOut("list", "any", "comment", "ok",
                     {"comment", "author", "updated", "created"})
    /\ lastCall' = NoCall
    /\ UNCHANGED fileVars

\* An onClose that saves the buffer without its last byte.
OnCloseCallCut(kind, id, buf) ==
    [NoCall EXCEPT !.name = IF kind = "add" THEN "AddComment" ELSE "SetComment",
                   !.key = id,
                   !.body = IF buf = Empty THEN Empty ELSE SubSeq(buf, 1, Len(buf) - 1)]

\* 128-138, 163-169: onClose hands the file's content to the tracker.
OnCloseCall(kind, id, buf) ==
    [NoCall EXCEPT !.name = IF kind = "add" THEN "AddComment" ELSE "SetComment",
                   !.key = id,
                   !.body = buf]

(***************************************************************************)
(* The close-commit wrapper (NewCloseSaver) and the synthetic file under   *)
(* it, as the design describes them: reads and writes go to the buffer,    *)
(* and the close of a file that was opened for writing runs onClose once   *)
(* and returns its result.                                                 *)
(***************************************************************************)
Max(a, b) == IF a >= b THEN a ELSE b

\* A write of data at offset off.
WriteAt(buf, off, data) ==
    [i \in 1..Max(Len(buf), off + Len(data)) |->
        IF i > off /\ i <= off + Len(data) THEN data[i - off] ELSE buf[i]]

SessOpen(mode) ==
    /\ sess.st = "walked"
    /\ sess' = [sess EXCEPT !.st = "open", !.mode = mode]
    /\ last' = Op("open", "any", mode, "ok")
    /\ lastCall' = NoCall
    /\ UNCHANGED <<comments, nAdded>>

SessWrite(off, data) ==
    /\ sess.st = "open" /\ sess.mode = "w"
    /\ off + Len(data) <= MaxLen
    /\ sess' = [sess EXCEPT !.buf = WriteAt(sess.buf, off, data)]
    /\ last' = Op("write", "any", off, "ok")
    /\ lastCall' = NoCall
    /\ UNCHANGED <<comments, nAdded>>

\* The close of a file that was only read runs no callback.
SessCloseRead ==
    /\ sess.st = "open" /\ sess.mode = "r"
    /\ sess' = [sess EXCEPT !.st = "closed"]
    /\ last' = Op("close", "any", sess.kind, "ok")
    /\ lastCall' = NoCall
    /\ UNCHANGED <<comments, nAdded>>

\* The close of a written file runs onClose; the tracker accepts the call.
SessCloseOk ==
    /\ sess.st = "open" /\ sess.mode = "w"
    /\ IF sess.kind = "add"
         THEN /\ nAdded < MaxComments
              /\ nAdded' = nAdded + 1
              /\ comments' = comments \cup {nAdded + 1}
         ELSE /\ sess.id \in comments
              /\ UNCHANGED <<comments, nAdded>>
    /\ sess' = [sess EXCEPT !.st = "closed", !.commits = @ + 1]
    /\ last' = Op("close", "any", sess.kind, "ok")
    /\ lastCall' = OnCloseCall(sess.kind, sess.id, sess.buf)

\* The close of a written file runs onClose; the tracker refuses the call.
SessCloseFail ==
    /\ sess.st = "open" /\ sess.mode = "w"
    /\ sess' = [sess EXCEPT !.st = "closed", !.commits = @ + 1]
    /\ last' = Op("close", "any", sess.kind, "RemoteError")
    /\ lastCall' = Refused(OnCloseCall(sess.kind, sess.id, sess.buf))
    /\ UNCHANGED <<comments, nAdded>>

\* The client goes away without closing.
SessDisconnect ==
    /\ sess.st \in {"walked", "open"}
    /\ sess' = [sess EXCEPT !.st = "gone"]
    /\ last' = Op("disconnect", "any", sess.kind, "ok")
    /\ lastCall' = NoCall
    /\ UNCHANGED <<comments, nAdded>>

InitFile ==
    /\ comments = {1}
    /\ nAdded = 1
    /\ sess = NoSess

(***************************************************************************)
(* The `links` file of a committed issue: IssueView.normalWalk, case       *)
(* "links" (jira.go:419-427), and its onClose (jira.go:473-519).  The      *)
(* issue's own key is "K"; a link is [id, dir, other, type], dir telling   *)
(* whether the other issue is the outward or the inward one.               *)
(***************************************************************************)
SP == " "

IssueKey == <<"K">>

RECURSIVE SplitOn(_, _)
\* strings.Split(s, sep) for a one-character sep
SplitOn(s, sep) ==
    IF \A i \in 1..Len(s) : s[i] # sep
      THEN <<s>>
      ELSE LET i == CHOOSE i \in 1..Len(s) :
                        s[i] = sep /\ \A j \in 1..(i - 1) : s[j] # sep
           IN  <<SubSeq(s, 1, i - 1)>> \o SplitOn(SubSeq(s, i + 1, Len(s)), sep)

\* 308-317: renderIssueLink
renderIssueLink(l, key) ==
    CASE l.dir = "out" -> key \o <<SP>> \o l.other \o <<SP>> \o l.type
      [] l.dir = "in"  -> l.other \o <<SP>> \o key \o <<SP>> \o l.type
      [] OTHER         -> Empty

\* 474-477: cur maps each rendered line to the id of the last link rendering it.
CurOf(links, key) ==
    [line \in {renderIssueLink(links[i], key) : i \in 1..Len(links)} |->
        LET i == CHOOSE i \in 1..Len(links) :
                     /\ renderIssueLink(links[i], key) = line
                     /\ \A j \in (i + 1)..Len(links) :
                            renderIssueLink(links[j], key) # line
        IN  links[i].id]

\* A map without one of its keys (delete(cur, s)).
Without(cur, k) == [x \in DOMAIN cur \ {k} |-> cur[x]]

RECURSIVE SortLines(_, _, _)
\* 484-495: every non-empty line is either new or takes its link out of cur.
SortLines(input, cur, new) ==
    IF input = Empty
      THEN [cur |-> cur, new |-> new]
      ELSE LET s == Head(input)
           IN  IF s = Empty
                 THEN SortLines(Tail(input), cur, new)
                 ELSE IF s \notin DOMAIN cur
                        THEN SortLines(Tail(input), cur, Append(new, s))
                        ELSE SortLines(Tail(input), Without(cur, s), new)

\* 506-512: a new line is acted on if it has three fields and names the issue.
LinkArgsOk(args, key) ==
    /\ Len(args) = 3
    /\ ~(args[1] # key /\ args[2] # key)

\* The links the tracker may hold at the start.
LinkA == [id |-> 1, dir |-> "out", other |-> <<"A">>, type |-> <<"R">>]

LinkB == [id |-> 2, dir |-> "in", other |-> <<"B">>, type |-> <<"R">>]

LinkLists == { Empty, <<LinkA>>, <<LinkA, LinkB>> }

\* The lines a client writes: the two links above, a new link of the issue,
\* a link between two other issues, and a line of two fields.
LinkLines == { <<"K", SP, "A", SP, "R">>, <<"B", SP, "K", SP, "R">>,
               <<"K", SP, "C", SP, "S">>, <<"A", SP, "B", SP, "R">>,
               <<"K", SP, "A">> }

RECURSIVE LinkTexts(_)
\* The texts of at most n lines, each line ended by a newline.
LinkTexts(n) ==
    IF n = 0 THEN { Empty }
    ELSE LinkTexts(n - 1) \cup
         { t \o l \o <<NL>> : t \in LinkTexts(n - 1), l \in LinkLines }

\* The same texts, and each of them without its last newline.
LinkInputs ==
    LinkTexts(MaxLines) \cup
    { SubSeq(t, 1, Len(t) - 1) : t \in LinkTexts(MaxLines) \ {Empty} }

NoLk == [st |-> "none", fields |-> TRUE, links |-> Empty, text |-> Empty,
         cur |-> << >>, new |-> Empty, calls |-> Empty]

\* One tracker call of the write-back, as kept in lk.calls.
LinkCall(n, a, ans) == [name |-> n, arg |-> a, ans |-> ans]

\* 325-328, 419-427: Walk to `links` fetches the issue; onClose keeps it.
LinksWalk ==
    /\ lk.st = "none"
    /\ lk' = [NoLk EXCEPT !.st = "walked", !.links = trLinks]
    /\ last' = Op("walk", "any", "links", "closesaver")
    /\ lastCall' = Call("GetIssue", IssueKey)
    /\ UNCHANGED <<trLinks, nextLink>>

\* 325-328, 419-426: the issue GetIssue gave has no fields (issue.Fields is
\* nil); the Walk succeeds and the file is empty.  onClose keeps that issue.
LinksWalkNoFields ==
    /\ lk.st = "none"
    /\ lk' = [NoLk EXCEPT !.st = "walked", !.fields = FALSE]
    /\ last' = OpOut("walk", "any", "links", "closesaver", Empty)
    /\ lastCall' = Call("GetIssue", IssueKey)
    /\ UNCHANGED <<trLinks, nextLink>>

\* Another client removes a link while the file is open.
LinksTrackerDrop(i) ==
    /\ lk.st = "walked"
    /\ i \in 1..Len(trLinks)
    /\ trLinks' = SubSeq(trLinks, 1, i - 1) \o SubSeq(trLinks, i + 1, Len(trLinks))
    /\ last' = Op("none", "other", "links", "ok")
    /\ lastCall' = NoCall
    /\ UNCHANGED <<nextLink, lk>>

\* 474-495: the close of the written file starts onClose, which sorts the
\* lines of the buffer into kept and new ones.
LinksClose(text) ==
    /\ lk.st = "walked"
    /\ lk.fields
    /\ LET r == SortLines(SplitOn(text, NL), CurOf(lk.links, IssueKey), Empty)
       IN  lk' = [lk EXCEPT !.st = "closing", !.text = text,
                            !.cur = r.cur, !.new = r.new]
    /\ last' = Op("closing", "any", "links", "running")
    /\ lastCall' = NoCall
    /\ UNCHANGED <<trLinks, nextLink>>

\* 474-475: onClose ranges over issue.Fields.IssueLinks; with issue.Fields nil
\* the field access is a nil pointer dereference and the close panics
\* before anything is returned.
LinksCloseFault(text) ==
    /\ lk.st = "walked"
    /\ ~lk.fields
    /\ lk' = [lk EXCEPT !.st = "faulted", !.text = text]
    /\ last' = Op("close", "any", "links", "fault")
    /\ lastCall' = NoCall
    /\ UNCHANGED <<trLinks, nextLink>>

\* 498-503: one round of the loop over cur, in the map's order; an error is
\* logged and the loop goes on.
LinksDelete(k, ans) ==
    /\ lk.st = "closing"
    /\ k \in DOMAIN lk.cur
    /\ ans = "ok" => \E i \in 1..Len(trLinks) : trLinks[i].id = lk.cur[k]
    /\ trLinks' = IF ans = "ok"
                    THEN SelectSeq(trLinks, LAMBDA l : l.id # lk.cur[k])
                    ELSE trLinks
    /\ lk' = [lk EXCEPT !.cur = Without(lk.cur, k),
                        !.calls = Append(@, LinkCall("DeleteIssueLink", lk.cur[k], ans))]
    /\ last' = Op("closing", "any", "links", "running")
    /\ lastCall' = IF ans = "ok" THEN Call("DeleteIssueLink", lk.cur[k])
                                  ELSE Refused(Call("DeleteIssueLink", lk.cur[k]))
    /\ UNCHANGED nextLink

\* 505-512: a new line without three fields, or not about this issue, is
\* passed over.
LinksSkip ==
    /\ lk.st = "closing" /\ DOMAIN lk.cur = {}
    /\ lk.new # Empty
    /\ ~LinkArgsOk(SplitOn(Head(lk.new), SP), IssueKey)
    /\ lk' = [lk EXCEPT !.new = Tail(@)]
    /\ last' = Op("closing", "any", "links", "running")
    /\ lastCall' = NoCall
    /\ UNCHANGED <<trLinks, nextLink>>

\* 505-517: a new line about this issue is handed to LinkIssues; an error is
\* logged and the loop goes on.
LinksLink(ans) ==
    /\ lk.st = "closing" /\ DOMAIN lk.cur = {}
    /\ lk.new # Empty
    /\ LET args == SplitOn(Head(lk.new), SP)
       IN  /\ LinkArgsOk(args, IssueKey)
           /\ trLinks' = IF ans = "ok"
                           THEN Append(trLinks,
                                  IF args[1] = IssueKey
                                    THEN [id |-> nextLink, dir |-> "out",
                                          other |-> args[2], type |-> args[3]]
                                    ELSE [id |-> nextLink, dir |-> "in",
                                          other |-> args[1], type |-> args[3]])
                           ELSE trLinks
           /\ nextLink' = IF ans = "ok" THEN nextLink + 1 ELSE nextLink
           /\ lk' = [lk EXCEPT !.new = Tail(@),
                               !.calls = Append(@, LinkCall("LinkIssues", Head(lk.new), ans))]
           /\ lastCall' = IF ans = "ok" THEN Call("LinkIssues", Head(lk.new))
                                         ELSE Refused(Call("LinkIssues", Head(lk.new)))
    /\ last' = Op("closing", "any", "links", "running")

\* 519: onClose returns nil, and so does the close.
LinksReturn ==
    /\ lk.st = "closing" /\ DOMAIN lk.cur = {} /\ lk.new = Empty
    /\ lk' = [lk EXCEPT !.st = "closed"]
    /\ last' = Op("close", "any", "links", "ok")
    /\ lastCall' = NoCall
    /\ UNCHANGED <<trLinks, nextLink>>

(***************************************************************************)
(* The workflow transition resolver (wg.Path, called at jira.go:554), as   *)
(* the design describes it: a breadth-first search over the graph, edges   *)
(* taken in the order the tracker returned the transitions.  A graph is    *)
(* the sequence of its transitions [from, name, to].                       *)
(***************************************************************************)
Statuses == { <<"O">>, <<"I">>, <<"C">> }

TransitionNames == { <<"a">>, <<"b">> }

Edges == [from : Statuses, name : TransitionNames, to : Statuses]

RECURSIVE GraphsOf(_)
GraphsOf(n) ==
    IF n = 0 THEN { Empty }
    ELSE GraphsOf(n - 1) \cup
         { Append(g, e) : g \in { h \in GraphsOf(n - 1) : Len(h) = n - 1 }, e \in Edges }

Graphs == GraphsOf(MaxEdges)

NoPathFound == [ok |-> FALSE, path |-> Empty]

PathFound(p) == [ok |-> TRUE, path |-> p]

\* The same statuses, the transitions taken last first.
OutOfLastFirst(g, f) ==
    LET es == SelectSeq(g, LAMBDA e : e.from = f.node)
    IN  [i \in 1..Len(es) |-> [node |-> es[Len(es) + 1 - i].to,
                               path |-> Append(f.path, es[Len(es) + 1 - i].name)]]

\* The statuses one step beyond f, each with the transition names leading to it.
OutOf(g, f) ==
    LET es == SelectSeq(g, LAMBDA e : e.from = f.node)
    IN  [i \in 1..Len(es) |-> [node |-> es[i].to, path |-> Append(f.path, es[i].name)]]

RECURSIVE ExpandAll(_, _)
ExpandAll(g, frontier) ==
    IF frontier = Empty THEN Empty
    ELSE OutOf(g, Head(frontier)) \o ExpandAll(g, Tail(frontier))

RECURSIVE Fresh(_, _)
\* The candidates that reach a status for the first time.
Fresh(cands, visited) ==
    IF cands = Empty THEN Empty
    ELSE IF Head(cands).node \in visited
           THEN Fresh(Tail(cands), visited)
           ELSE <<Head(cands)>> \o Fresh(Tail(cands), visited \cup {Head(cands).node})

RECURSIVE Search(_, _, _, _, _, _)
\* One level of the search: depth transitions have been followed so far.
Search(g, frontier, visited, to, depth, maxSteps) ==
    IF frontier = Empty \/ depth >= maxSteps
      THEN NoPathFound
      ELSE LET cands == ExpandAll(g, frontier)
               hits  == SelectSeq(cands, LAMBDA c : c.node = to)
           IN  IF hits # Empty
                 THEN PathFound(Head(hits).path)
                 ELSE Search(g, Fresh(cands, visited),
                             visited \cup { cands[i].node : i \in 1..Len(cands) },
                             to, depth + 1, maxSteps)

\* A Path that searches even when asked for the status it starts from.
PathAlwaysSearches(g, from, to, maxSteps) ==
    Search(g, <<[node |-> from, path |-> Empty]>>, {from}, to, 0, maxSteps)

\* Path(fromStatus, toStatus, maxSteps)
Path(g, from, to, maxSteps) ==
    IF from = to
      THEN PathFound(Empty)
      ELSE Search(g, <<[node |-> from, path |-> Empty]>>, {from}, to, 0, maxSteps)

\* One call of the resolver.
PathCall ==
    /\ ~pathOut.done
    /\ pathOut' = [done |-> TRUE,
                   res |-> Path(pathIn.g, pathIn.from, pathIn.to, pathIn.max)]
    /\ last' = Op("path", "any", pathIn.max,
                  IF pathOut'.res.ok THEN "ok" ELSE "NoPathFound")
    /\ lastCall' = NoCall
    /\ UNCHANGED pathIn

InitPath ==
    /\ pathIn \in [g : Graphs, from : Statuses, to : Statuses, max : 0..MaxSteps]
    /\ pathOut = [done |-> FALSE, res |-> NoPathFound]

QuietPath ==
    /\ pathIn = [g |-> Empty, from |-> <<"O">>, to |-> <<"O">>, max |-> 0]
    /\ pathOut = [done |-> FALSE, res |-> NoPathFound]

(***************************************************************************)
(* The `status` file of a committed issue: IssueView.normalWalk, case      *)
(* "status" (jira.go:361-364), and its onClose (jira.go:528-571).          *)
(***************************************************************************)
\* The maxSteps onClose passes to Path.
PathMaxSteps == 500

\* The workflows an issue type may have.
Workflows ==
    { << [from |-> <<"O">>, name |-> <<"a">>, to |-> <<"I">>],
         [from |-> <<"I">>, name |-> <<"b">>, to |-> <<"C">>] >>,
      << [from |-> <<"O">>, name |-> <<"a">>, to |-> <<"I">>],
         [from |-> <<"I">>, name |-> <<"b">>, to |-> <<"C">>],
         [from |-> <<"C">>, name |-> <<"a">>, to |-> <<"O">>] >> }

\* What a client may have in the `status` file when it closes it.
StatusInputs == { <<"C", NL>>, <<"I">>, <<"O", NL>>, <<"X", NL>> }

NoSx == [st |-> "none", buf |-> Empty, str |-> Empty, cur |-> Empty,
         found |-> FALSE, path |-> Empty, rest |-> Empty, calls |-> Empty,
         res |-> "none"]

\* The transitions of the workflow the tracker accepts in a status.
Accepts(g, status, name) ==
    \E i \in 1..Len(g) : g[i].from = status /\ g[i].name = name

\* The status a transition the tracker accepted leads to.
Target(g, status, name) ==
    LET i == CHOOSE i \in 1..Len(g) :
                 /\ g[i].from = status /\ g[i].name = name
                 /\ \A j \in 1..(i - 1) : ~(g[j].from = status /\ g[j].name = name)
    IN  g[i].to

\* 325-328, 361-364: Walk to `status` fetches the issue and seeds the file
\* with the status name and a newline.
StatusWalk ==
    /\ sx.st = "none"
    /\ sx' = [NoSx EXCEPT !.st = "walked", !.buf = trStatus \o <<NL>>]
    /\ last' = Op("walk", "any", "status", "closesaver")
    /\ lastCall' = Call("GetIssue", IssueKey)
    /\ UNCHANGED <<trStatus, wf>>

\* 529-538: the close of the written file starts onClose, which takes the
\* newlines out of the buffer and fetches the issue again.
StatusClose(buf) ==
    /\ sx.st = "walked"
    /\ sx' = [sx EXCEPT !.st = "fetched", !.buf = buf,
                        !.str = StripNewlines(buf), !.cur = trStatus]
    /\ last' = Op("closing", "any", "status", "running")
    /\ lastCall' = Call("GetIssue", IssueKey)
    /\ UNCHANGED <<trStatus, wf>>

\* 534-546: GetIssue fails, or the issue comes without fields or status.
StatusCloseFail(buf, err) ==
    /\ sx.st = "walked"
    /\ sx' = [sx EXCEPT !.st = "closed", !.buf = buf,
                        !.str = StripNewlines(buf), !.res = err]
    /\ last' = Op("close", "any", "status", err)
    /\ lastCall' = IF err = "RemoteError" THEN Refused(Call("GetIssue", IssueKey))
                                          ELSE Call("GetIssue", IssueKey)
    /\ UNCHANGED <<trStatus, wf>>

\* 548-552: BuildWorkflow2 fails.
StatusBuildFail ==
    /\ sx.st = "fetched"
    /\ sx' = [sx EXCEPT !.st = "closed", !.res = "RemoteError"]
    /\ last' = Op("close", "any", "status", "RemoteError")
    /\ lastCall' = Refused(Call("BuildWorkflow2", IssueKey))
    /\ UNCHANGED <<trStatus, wf>>

\* 548-559: the workflow is built, and Path finds no way to the status asked for.
StatusNoPath ==
    /\ sx.st = "fetched"
    /\ ~Path(wf, sx.cur, sx.str, PathMaxSteps).ok
    /\ sx' = [sx EXCEPT !.st = "closed", !.res = "NoPathFound"]
    /\ last' = Op("close", "any", "status", "NoPathFound")
    /\ lastCall' = Call("BuildWorkflow2", IssueKey)
    /\ UNCHANGED <<trStatus, wf>>

\* 548-561: the workflow is built, and Path returns the transitions to make.
StatusPath ==
    /\ sx.st = "fetched"
    /\ LET p == Path(wf, sx.cur, sx.str, PathMaxSteps)
       IN  /\ p.ok
           /\ sx' = [sx EXCEPT !.st = "running", !.found = TRUE,
                               !.path = p.path, !.rest = p.path]
    /\ last' = Op("closing", "any", "status", "running")
    /\ lastCall' = Call("BuildWorkflow2", IssueKey)
    /\ UNCHANGED <<trStatus, wf>>

\* 563-564: one round of the loop; the tracker makes the transition.
StatusTransitionOk ==
    /\ sx.st = "running" /\ sx.rest # Empty
    /\ Accepts(wf, trStatus, Head(sx.rest))
    /\ trStatus' = Target(wf, trStatus, Head(sx.rest))
    /\ sx' = [sx EXCEPT !.rest = Tail(@),
                        !.calls = Append(@, [name |-> Head(sx.rest), ans |-> "ok"])]
    /\ last' = Op("closing", "any", "status", "running")
    /\ lastCall' = Call("TransitionIssue", Head(sx.rest))
    /\ UNCHANGED wf

\* A loop that goes on with the next transition after a failure.
StatusTransitionFailGoesOn ==
    /\ sx.st = "running" /\ sx.rest # Empty
    /\ sx' = [sx EXCEPT !.rest = Tail(@),
                        !.calls = Append(@, [name |-> Head(sx.rest), ans |-> "error"])]
    /\ last' = Op("closing", "any", "status", "running")
    /\ lastCall' = Refused(Call("TransitionIssue", Head(sx.rest)))
    /\ UNCHANGED <<trStatus, wf>>

\* 563-568: one round of the loop; the tracker refuses the transition, and
\* onClose returns the error.
StatusTransitionFail ==
    /\ sx.st = "running" /\ sx.rest # Empty
    /\ sx' = [sx EXCEPT !.st = "closed", !.res = "RemoteError",
                        !.calls = Append(@, [name |-> Head(sx.rest), ans |-> "error"])]
    /\ last' = Op("close", "any", "status", "RemoteError")
    /\ lastCall' = Refused(Call("TransitionIssue", Head(sx.rest)))
    /\ UNCHANGED <<trStatus, wf>>

\* 571: every transition is made; onClose returns nil.
StatusReturn ==
    /\ sx.st = "running" /\ sx.rest = Empty
    /\ sx' = [sx EXCEPT !.st = "closed", !.res = "ok"]
    /\ last' = Op("close", "any", "status", "ok")
    /\ lastCall' = NoCall
    /\ UNCHANGED <<trStatus, wf>>

InitStatus ==
    /\ trStatus \in Statuses
    /\ wf \in Workflows
    /\ sx = NoSx

QuietStatus ==
    /\ trStatus = <<"O">>
    /\ wf = Empty
    /\ sx = NoSx

(***************************************************************************)
(* The issue listings: ProjectIssuesView of project "P" (jira.go:682-720)  *)
(* and AllIssuesView (jira.go:817-925), and the `key` file of the issue    *)
(* directory they lead to (jira.go:386-388).  A key is project, "-",       *)
(* number, one character each.                                             *)
(***************************************************************************)
Digits == {"0", "1", "2", "3", "4", "5", "6", "7", "8", "9"}

\* A ParseUint that takes nothing for a number.
IsUintNever(s) == FALSE

\* strconv.ParseUint(s, 10, 64) succeeds
IsUint(s) == s # Empty /\ \A i \in 1..Len(s) : s[i] \in Digits

\* strings.ToUpper
ToUpper(s) == [i \in 1..Len(s) |-> CASE s[i] = "p" -> "P" [] s[i] = "q" -> "Q" [] OTHER -> s[i]]

ListedProject == <<"P">>

AllKeys == { <<"P", "-", "1">>, <<"P", "-", "2">>, <<"Q", "-", "1">> }

\* The names a client walks to in a listing.
ListingNames == { <<"1">>, <<"2">>, <<"x">>, <<"new">>, <<"help">>, <<"structure">>,
                  <<"P", "-", "1">>, <<"p", "-", "2">>, <<"Q", "-", "1">>,
                  <<"P", "-", "x">>, <<"P">> }

\* The tracker answers a key whatever its case, with the issue's own key.
TrackerKey(k) == ToUpper(k)

TrackerHas(k) == TrackerKey(k) \in trIssues

NoLv == [view |-> "none", entries |-> {}, walked |-> "none", name |-> Empty,
         issueNo |-> Empty, key |-> Empty]

\* GetKeysForNIssuesInProject: the numbers of the project's issues.
ProjectEntries ==
    { [name |-> <<k[3]>>, key |-> k] : k \in { j \in trIssues : <<j[1]>> = ListedProject } }

\* 711-720: ProjectIssuesView.List
ProjectList ==
    /\ lv' = [NoLv EXCEPT !.view = "project",
                          !.entries = ProjectEntries \cup {[name |-> <<"new">>, key |-> Empty]}]
    /\ last' = Op("list", "any", "project", "ok")
    /\ lastCall' = Call("GetKeysForNIssuesInProject", ListedProject)
    /\ UNCHANGED trIssues

\* 712-716: the listing fails.
ProjectListFail ==
    /\ last' = Op("list", "any", "project", "RemoteError")
    /\ lastCall' = Refused(Call("GetKeysForNIssuesInProject", ListedProject))
    /\ UNCHANGED listVars

\* 686-693, 708: "new" gives the directory of a new issue.
ListingWalkNew(view) ==
    /\ lv' = [lv EXCEPT !.walked = view, !.name = <<"new">>, !.issueNo = Empty,
                        !.key = Empty]
    /\ last' = Op("walk", view, <<"new">>, "newdir")
    /\ lastCall' = NoCall
    /\ UNCHANGED trIssues

\* 694-697: a name that is no number is not found.
ProjectWalkMissing(name) ==
    /\ name # <<"new">>
    /\ ~IsUint(name)
    /\ last' = Op("walk", "project", name, "NotFound")
    /\ lastCall' = NoCall
    /\ UNCHANGED listVars

\* 699-708: the issue of that number is fetched and its directory returned.
ProjectWalk(name, ans) ==
    /\ name # <<"new">>
    /\ IsUint(name)
    /\ LET issueKey == ListedProject \o <<"-">> \o name
       IN  /\ ans = "ok" => TrackerHas(issueKey)
           /\ lv' = IF ans = "ok"
                      THEN [lv EXCEPT !.walked = "project", !.name = name,
                                      !.issueNo = issueKey, !.key = Empty]
                      ELSE lv
           /\ lastCall' = IF ans = "ok" THEN Call("GetIssue", issueKey)
                                         ELSE Refused(Call("GetIssue", issueKey))
    /\ last' = Op("walk", "project", name, IF ans = "ok" THEN "dir" ELSE "RemoteError")
    /\ UNCHANGED trIssues

\* 914-925: AllIssuesView.List
AllList ==
    /\ lv' = [NoLv EXCEPT !.view = "all",
                          !.entries = { [name |-> k, key |-> k] : k \in trIssues } \cup
                                      { [name |-> n, key |-> Empty] :
                                            n \in {<<"new">>, <<"help">>, <<"structure">>} }]
    /\ last' = Op("list", "any", "all", "ok")
    /\ lastCall' = Call("GetKeysForSearch", Empty)
    /\ UNCHANGED trIssues

\* 915-919: the listing fails.
AllListFail ==
    /\ last' = Op("list", "any", "all", "RemoteError")
    /\ lastCall' = Refused(Call("GetKeysForSearch", Empty))
    /\ UNCHANGED listVars

\* 822-893: help and structure are plain files.
AllWalkText(name) ==
    /\ name \in {<<"help">>, <<"structure">>}
    /\ last' = Op("walk", "all", name, "file")
    /\ lastCall' = NoCall
    /\ UNCHANGED listVars

\* 895-902: a name that is not PROJECT-NUMBER is not found.
AllWalkMissing(name) ==
    /\ name \notin {<<"new">>, <<"help">>, <<"structure">>}
    /\ LET parts == SplitOn(ToUpper(name), "-")
       IN  \/ Len(parts) # 2
           \/ Len(parts) = 2 /\ ~IsUint(parts[2])
    /\ last' = Op("walk", "all", name, "NotFound")
    /\ lastCall' = NoCall
    /\ UNCHANGED listVars

\* 895-922: the issue of that key is fetched and its directory returned.
AllWalk(name, ans) ==
    /\ name \notin {<<"new">>, <<"help">>, <<"structure">>}
    /\ LET parts == SplitOn(ToUpper(name), "-")
       IN  Len(parts) = 2 /\ IsUint(parts[2])
    /\ ans = "ok" => TrackerHas(name)
    /\ lv' = IF ans = "ok"
               THEN [lv EXCEPT !.walked = "all", !.name = name, !.issueNo = name,
                               !.key = Empty]
               ELSE lv
    /\ last' = Op("walk", "all", name,
                  CASE ans = "ok" -> "dir" [] ans = "nofields" -> "NoFields"
                    [] OTHER -> "RemoteError")
    /\ lastCall' = IF ans = "error" THEN Refused(Call("GetIssue", name))
                                     ELSE Call("GetIssue", name)
    /\ UNCHANGED trIssues

\* 325-328, 386-388, 463-465: Walk to `key` in the directory walked to
\* fetches the issue and gives its key and a newline.
KeyWalk(ans) ==
    /\ lv.walked # "none" /\ lv.issueNo # Empty
    /\ ans = "ok" => TrackerHas(lv.issueNo)
    /\ lv' = IF ans = "ok" THEN [lv EXCEPT !.key = TrackerKey(lv.issueNo) \o <<NL>>]
                           ELSE lv
    /\ last' = Op("walk", "issue", "key", IF ans = "ok" THEN "file" ELSE "RemoteError")
    /\ lastCall' = IF ans = "ok" THEN Call("GetIssue", lv.issueNo)
                                  ELSE Refused(Call("GetIssue", lv.issueNo))
    /\ UNCHANGED trIssues

\* Another client deletes an issue.
TrackerDelete(k) ==
    /\ k \in trIssues
    /\ trIssues' = trIssues \ {k}
    /\ lv' = lv
    /\ last' = Op("none", "other", k, "ok")
    /\ lastCall' = NoCall

InitListing ==
    /\ trIssues = AllKeys
    /\ lv = NoLv

(***************************************************************************)
(* The field files of a committed issue: what normalWalk seeds them with   *)
(* and how it serves them (jira.go:330-427, 456-465, 586-592), and the     *)
(* default onClose (jira.go:573-583).  Two clients each walk to a field    *)
(* file, open it, write and close it.  The wrapper around the file is as   *)
(* the design describes it: with forceTrunc the first write of a session   *)
(* wipes the seeded content; the close of a written file runs onClose.     *)
(***************************************************************************)
Clients == {"c1", "c2"}

Fields == {"assignee", "summary", "description"}

\* What the tracker may hold for a field at the start.
FieldValues == { <<"u", "v">>, <<"w">> }

\* What a client writes in one write request.
FieldData == { <<"x">>, <<"x", NL>>, <<"x", NL, "y">> }

\* The files a client walks to: the second client goes where the first went.
WalkFiles(c) ==
    IF c = "c1" THEN Fields
    ELSE IF fs["c1"].st = "none" THEN {} ELSE {fs["c1"].file}

\* A client writes from the start of the file and goes on where it stopped.
NextOffset(c) == IF fs[c].wrote THEN Len(fs[c].buf) ELSE 0

\* 330, 351, 356, 397, 406, 427: the forceTrunc normalWalk serves a file with.
ForceTrunc(file) ==
    file \notin {"summary", "description", "components", "labels", "links"}

\* 373-388: the files served read-only.
Writable(file) == file \notin {"progress", "project", "key"}

\* 335-356: the content the file is seeded with.
Seed(file, value) == value \o <<NL>>

\* An onClose that commits the whole buffer for every field.
CommitValueWhole(file, buf) == buf

\* 573-582: the value onClose hands to SetFieldInIssue.
CommitValue(file, buf) ==
    IF file \in {"description", "labels", "components"}
      THEN buf
      ELSE StripNewlines(buf)

NoFs == [st |-> "none", file |-> "none", buf |-> Empty, seed |-> Empty,
         forceTrunc |-> FALSE, mode |-> "none", wrote |-> FALSE,
         stale |-> FALSE]

\* 325-328, 335-356, 463-465, 586-589: Walk fetches the issue, seeds the file
\* and wraps it.
FieldWalk(c, file) ==
    /\ fs[c].st = "none"
    /\ fs' = [fs EXCEPT ![c] = [NoFs EXCEPT !.st = "walked", !.file = file,
                                            !.buf = Seed(file, remote[file]),
                                            !.seed = Seed(file, remote[file]),
                                            !.forceTrunc = ForceTrunc(file)]]
    /\ last' = Op("walk", c, file, "closesaver")
    /\ lastCall' = Call("GetIssue", IssueKey)
    /\ UNCHANGED remote

\* 325-328: GetIssue fails.
FieldWalkFail(c, file) ==
    /\ fs[c].st = "none"
    /\ last' = Op("walk", c, file, "RemoteError")
    /\ lastCall' = Refused(Call("GetIssue", IssueKey))
    /\ UNCHANGED fieldVars

FieldOpen(c, mode) ==
    /\ fs[c].st = "walked"
    /\ fs' = [fs EXCEPT ![c].st = "open", ![c].mode = mode]
    /\ last' = Op("open", c, mode, "ok")
    /\ lastCall' = NoCall
    /\ UNCHANGED remote

\* The first write of a session on a forceTrunc file wipes what the file held.
FieldWrite(c, off, data) ==
    /\ fs[c].st = "open" /\ fs[c].mode = "w"
    /\ off + Len(data) <= MaxFieldLen
    /\ LET held == IF fs[c].forceTrunc /\ ~fs[c].wrote THEN Empty ELSE fs[c].buf
       IN  /\ off <= Len(held)
           /\ fs' = [fs EXCEPT ![c].buf = WriteAt(held, off, data),
                               ![c].wrote = TRUE]
    /\ last' = OpOut("write", c, off, "ok", [data |-> data, first |-> ~fs[c].wrote])
    /\ lastCall' = NoCall
    /\ UNCHANGED remote

\* The close of a file that was only read runs no callback.
FieldCloseRead(c) ==
    /\ fs[c].st = "open" /\ fs[c].mode = "r"
    /\ fs' = [fs EXCEPT ![c].st = "closed"]
    /\ last' = Op("close", c, fs[c].file, "ok")
    /\ lastCall' = NoCall
    /\ UNCHANGED remote

\* A close that leaves the field alone when it was committed to since the Walk.
FieldCloseOkUnlessStale(c) ==
    /\ fs[c].st = "open" /\ fs[c].mode = "w"
    /\ remote' = IF fs[c].stale THEN remote
                 ELSE [remote EXCEPT ![fs[c].file] = CommitValue(fs[c].file, fs[c].buf)]
    /\ fs' = [d \in Clients |->
                IF d = c THEN [fs[c] EXCEPT !.st = "closed"]
                ELSE IF fs[d].st \in {"walked", "open"} /\ fs[d].file = fs[c].file
                       THEN [fs[d] EXCEPT !.stale = TRUE]
                       ELSE fs[d]]
    /\ last' = Op("close", c, fs[c].file, "ok")
    /\ lastCall' = [Call("SetFieldInIssue", IssueKey) EXCEPT
                       !.body = CommitValue(fs[c].file, fs[c].buf)]

\* 573-582: the close of a written file runs onClose; the tracker takes the
\* value.  (stale: the other client's file was walked to before this commit.)
FieldCloseOk(c) ==
    /\ fs[c].st = "open" /\ fs[c].mode = "w"
    /\ remote' = [remote EXCEPT ![fs[c].file] = CommitValue(fs[c].file, fs[c].buf)]
    /\ fs' = [d \in Clients |->
                IF d = c THEN [fs[c] EXCEPT !.st = "closed"]
                ELSE IF fs[d].st \in {"walked", "open"} /\ fs[d].file = fs[c].file
                       THEN [fs[d] EXCEPT !.stale = TRUE]
                       ELSE fs[d]]
    /\ last' = Op("close", c, fs[c].file, "ok")
    /\ lastCall' = [Call("SetFieldInIssue", IssueKey) EXCEPT
                       !.body = CommitValue(fs[c].file, fs[c].buf)]

\* 573-582: the tracker refuses the value; the close returns the error.
FieldCloseFail(c) ==
    /\ fs[c].st = "open" /\ fs[c].mode = "w"
    /\ fs' = [fs EXCEPT ![c].st = "closed"]
    /\ last' = Op("close", c, fs[c].file, "RemoteError")
    /\ lastCall' = Refused([Call("SetFieldInIssue", IssueKey) EXCEPT
                               !.body = CommitValue(fs[c].file, fs[c].buf)])
    /\ UNCHANGED remote

InitField ==
    /\ \E v \in FieldValues : remote = [f \in Fields |-> v]
    /\ fs = [c \in Clients |-> NoFs]

QuietField ==
    /\ remote = [f \in Fields |-> <<"w">>]
    /\ fs = [c \in Clients |-> NoFs]

(***************************************************************************)
(* An issue list and the IssueViews it hands out for `new`                 *)
(* (ProjectIssuesView.Walk, jira.go:686-709; AllIssuesView.Walk,           *)
(* jira.go:817-822, 911).  Each client walks to `new`, then to the draft   *)
(* files and to ctl of the IssueView it was given.                         *)
(***************************************************************************)
\* IssueViews one issue list creates.
MaxDrafts == 2

\* The draft files a client walks to.
DraftWalkFiles == {"summary", "project"}

NoDc == [view |-> 0, file |-> "none", seed |-> Empty, pos |-> "idle", loc |-> NoLoc]

\* 687-689, 818: the IssueView a Walk builds.
NewIssueView(listProject) ==
    [project |-> listProject, issueNo |-> Empty, newIssue |-> FALSE,
     values |-> [f \in draftFiles |-> Empty]]

\* A list that keeps the IssueView of `new` and hands it out again.
IssuesWalkNewKept(c) ==
    /\ dc[c].file = "none" /\ dc[c].pos = "idle"
    /\ Len(dl.views) < MaxDrafts
    /\ dl' = IF dl.views = Empty
               THEN [dl EXCEPT !.views =
                            <<[NewIssueView(dl.project) EXCEPT !.newIssue = TRUE]>>,
                                !.fresh = <<TRUE>>]
               ELSE dl
    /\ dc' = [dc EXCEPT ![c].view = 1]
    /\ last' = Op("walk", c, "new", "dir")
    /\ lastCall' = NoCall

\* 687-693, 708 and 818-821, 911: Walk of `new` builds an IssueView in new
\* mode and wraps it in a directory.
IssuesWalkNew(c) ==
    /\ dc[c].file = "none" /\ dc[c].pos = "idle"
    /\ Len(dl.views) < MaxDrafts
    /\ dl' = [dl EXCEPT !.views =
                     Append(@, [NewIssueView(dl.project) EXCEPT !.newIssue = TRUE]),
                         !.fresh = Append(@, TRUE)]
    /\ dc' = [dc EXCEPT ![c].view = Len(dl.views) + 1]
    /\ last' = Op("walk", c, "new", "dir")
    /\ lastCall' = NoCall

\* 595-601, 282-293, 303: Walk of a draft file seeds it with the view's value.
DraftFileWalk(c, file) ==
    /\ dc[c].view # 0 /\ dc[c].file = "none" /\ dc[c].pos = "idle"
    /\ dl.views[dc[c].view].newIssue
    /\ dc' = [dc EXCEPT ![c].file = file,
                        ![c].seed = dl.views[dc[c].view].values[file]]
    /\ last' = OpOut("walk", c, file, "closesaver", dl.views[dc[c].view].values[file])
    /\ lastCall' = NoCall
    /\ UNCHANGED dl

\* 295-301: the close of a written draft file stores the buffer in the view
\* the file came from.  (shared: the latest value closed into each file
\* through any view of the list; fresh: no other view was closed into since
\* the Walk that created this one.)
DraftFileClose(c, content) ==
    /\ dc[c].file # "none"
    /\ dl' = [dl EXCEPT !.views[dc[c].view].values[dc[c].file] = content,
                        !.shared[dc[c].file] = content,
                        !.fresh = [i \in 1..Len(dl.views) |->
                                      IF i = dc[c].view THEN dl.fresh[i] ELSE FALSE]]
    /\ dc' = [dc EXCEPT ![c].file = "none", ![c].seed = Empty]
    /\ last' = OpOut("close", c, dc[c].file, "ok", content)
    /\ lastCall' = NoCall

\* 236-244: `commit` reads the view's mode and values under issueLock.
DraftCommitRead(c) ==
    /\ dc[c].view # 0 /\ dc[c].file = "none" /\ dc[c].pos = "idle"
    /\ LET iw == dl.views[dc[c].view]
       IN  dc' = [dc EXCEPT ![c].pos = "read",
                            ![c].loc =
                 [isNew       |-> iw.newIssue,
                  issuetype   |-> StripNewlines(iw.values["type"]),
                  summary     |-> StripNewlines(iw.values["summary"]),
                  description |-> iw.values["description"],
                  project     |-> StripNewlines(iw.values["project"]),
                  key         |-> Empty]]
    /\ last' = Op("ctlwrite", c, "commit", "running")
    /\ lastCall' = NoCall
    /\ UNCHANGED dl

\* 246-248: the project falls back to the view's.
DraftCommitResolve(c) ==
    /\ dc[c].pos = "read"
    /\ dc' = [dc EXCEPT ![c].pos = "resolved",
                        ![c].loc.project =
                            ResolveProject(dc[c].loc.project,
                                           dl.views[dc[c].view].project)]
    /\ last' = Op("ctlwrite", c, "commit", "running")
    /\ lastCall' = NoCall
    /\ UNCHANGED dl

\* 250-252: errors.New("issue already committed")
DraftCommitReject(c) ==
    /\ dc[c].pos = "resolved"
    /\ AlreadyCommitted(dc[c].loc.isNew)
    /\ dc' = [dc EXCEPT ![c].pos = "idle", ![c].loc = NoLoc]
    /\ last' = Op("ctlwrite", c, "commit", "AlreadyCommitted")
    /\ lastCall' = NoCall
    /\ UNCHANGED dl

\* 267: CreateIssue succeeds and returns the new issue's key.
DraftCommitCreateOk(c) ==
    /\ dc[c].pos = "resolved"
    /\ ~AlreadyCommitted(dc[c].loc.isNew)
    /\ dl' = [dl EXCEPT !.created = @ + 1]
    /\ dc' = [dc EXCEPT ![c].pos = "created", ![c].loc.key = KeyOf(dl.created + 1)]
    /\ last' = Op("ctlwrite", c, "commit", "running")
    /\ lastCall' = CreateCall(dc[c].loc)

\* 267-271: CreateIssue fails and the error is returned.
DraftCommitCreateFail(c) ==
    /\ dc[c].pos = "resolved"
    /\ ~AlreadyCommitted(dc[c].loc.isNew)
    /\ dc' = [dc EXCEPT ![c].pos = "idle", ![c].loc = NoLoc]
    /\ last' = Op("ctlwrite", c, "commit", "RemoteError")
    /\ lastCall' = Refused(CreateCall(dc[c].loc))
    /\ UNCHANGED dl

\* 273-278: under issueLock, the view takes the key and leaves new mode.
DraftCommitAssign(c) ==
    /\ dc[c].pos = "created"
    /\ dl' = [dl EXCEPT !.views[dc[c].view] =
                 [@ EXCEPT !.issueNo = dc[c].loc.key,
                           !.project = dc[c].loc.project,
                           !.newIssue = FALSE]]
    /\ dc' = [dc EXCEPT ![c].pos = "idle", ![c].loc = NoLoc]
    /\ last' = Op("ctlwrite", c, "commit", "ok")
    /\ lastCall' = NoCall

InitDraft ==
    /\ \E p \in InheritedProjects : dl = [project |-> p, views |-> Empty, created |-> 0,
                 shared |-> [f \in draftFiles |-> Empty], fresh |-> Empty]
    /\ dc = [c \in Clients |-> NoDc]

QuietDraft ==
    /\ dl = [project |-> Empty, views |-> Empty, created |-> 0,
             shared |-> [f \in draftFiles |-> Empty], fresh |-> Empty]
    /\ dc = [c \in Clients |-> NoDc]

(***************************************************************************)
(* The views not followed elsewhere: the project list (AllProjectsView,    *)
(* jira.go:779-811), one project (ProjectView, jira.go:722-777), the       *)
(* worklog list of one issue (IssueWorklogView, jira.go:51-87) and one     *)
(* worklog (WorklogView, jira.go:17-49).  A name is a sequence whose       *)
(* elements are single letters or whole fixed names.                       *)
(***************************************************************************)
ProjectKeys == { <<"P">>, <<"Q">> }

WorklogIds == { <<"1">>, <<"2">> }

\* pw.project and wv.worklog of the views walked in.
ViewedProject == <<"P">>

ViewedWorklog == <<"1">>

\* The names a client walks to in these views.
NodeNames == ProjectKeys \cup WorklogIds \cup
             { <<"p">>, <<"issues">>, <<"issuetypes">>, <<"components">>, <<"raw">>,
               <<"comment">>, <<"author">>, <<"time">>, <<"started">>, <<"x">> }

NoNv == [view |-> "none", entries |-> {}]

\* StringsToStats(names, mode, ...): one entry per name, all with the mode's
\* directory flag.
StringsToStats(names, isDir) == { [name |-> n, dir |-> isDir] : n \in names }

\* 800-813: AllProjectsView.List
ProjectsList ==
    /\ nv' = [view |-> "projects", entries |-> StringsToStats(trProjects, TRUE)]
    /\ last' = Op("list", "projects", Empty, "ok")
    /\ lastCall' = Call("GetProjects", Empty)
    /\ UNCHANGED <<trProjects, trWorklogs>>

\* 801-805, 783-787: GetProjects fails, in List or in Walk.
ProjectsFail(op, name) ==
    /\ last' = Op(op, "projects", name, "RemoteError")
    /\ lastCall' = Refused(Call("GetProjects", Empty))
    /\ UNCHANGED <<trProjects, trWorklogs, nv>>

\* 781-799: AllProjectsView.Walk
ProjectsWalk(projectName) ==
    /\ last' = Op("walk", "projects", projectName,
                  IF ToUpper(projectName) \in trProjects THEN "dir" ELSE "NotFound")
    /\ lastCall' = Call("GetProjects", Empty)
    /\ UNCHANGED <<trProjects, trWorklogs, nv>>

\* A List that flags only `issues` as a directory.
ProjectViewEntriesAsWalked ==
    StringsToStats({<<"issues">>}, TRUE)
        \cup StringsToStats({<<"issuetypes">>, <<"components">>, <<"raw">>}, FALSE)

\* 775-777: the entries ProjectView.List gives, all 0555|qp.DMDIR.
ProjectViewEntries ==
    StringsToStats({<<"issues">>, <<"issuetypes">>, <<"components">>, <<"raw">>}, TRUE)

\* 775-777: ProjectView.List
ProjectViewList ==
    /\ nv' = [view |-> "project", entries |-> ProjectViewEntries]
    /\ last' = Op("list", "project", Empty, "ok")
    /\ lastCall' = NoCall
    /\ UNCHANGED <<trProjects, trWorklogs>>

\* 728-730, 770-771: `issues` is a directory; any other name is not found.
ProjectViewWalkLocal(file) ==
    /\ file \notin {<<"components">>, <<"issuetypes">>, <<"raw">>}
    /\ last' = Op("walk", "project", file,
                  IF file = <<"issues">> THEN "dir" ELSE "NotFound")
    /\ lastCall' = NoCall
    /\ UNCHANGED <<trProjects, trWorklogs, nv>>

\* 731-769: components, issuetypes and raw are files made from GetProject.
ProjectViewWalkFile(file, ans) ==
    /\ file \in {<<"components">>, <<"issuetypes">>, <<"raw">>}
    /\ ans = "ok" => ViewedProject \in trProjects
    /\ last' = Op("walk", "project", file, IF ans = "ok" THEN "file" ELSE "RemoteError")
    /\ lastCall' = [Call("GetProject", ViewedProject) EXCEPT !.ans = ans]
    /\ UNCHANGED <<trProjects, trWorklogs, nv>>

\* 75-87: IssueWorklogView.List
WorklogListList ==
    /\ nv' = [view |-> "worklogs", entries |-> StringsToStats(trWorklogs, TRUE)]
    /\ last' = Op("list", "worklogs", Empty, "ok")
    /\ lastCall' = Call("GetWorklogForIssue", IssueKey)
    /\ UNCHANGED <<trProjects, trWorklogs>>

\* 76-79, 56-59: GetWorklogForIssue fails, in List or in Walk.
WorklogListFail(op, name) ==
    /\ last' = Op(op, "worklogs", name, "RemoteError")
    /\ lastCall' = Refused(Call("GetWorklogForIssue", IssueKey))
    /\ UNCHANGED <<trProjects, trWorklogs, nv>>

\* 55-73: IssueWorklogView.Walk
WorklogListWalk(file) ==
    /\ last' = Op("walk", "worklogs", file,
                  IF file \in trWorklogs THEN "dir" ELSE "NotFound")
    /\ lastCall' = Call("GetWorklogForIssue", IssueKey)
    /\ UNCHANGED <<trProjects, trWorklogs, nv>>

\* 47-49: WorklogView.List
WorklogList ==
    /\ nv' = [view |-> "worklog",
              entries |-> StringsToStats({<<"comment">>, <<"author">>, <<"time">>,
                                          <<"started">>}, FALSE)]
    /\ last' = Op("list", "worklog", Empty, "ok")
    /\ lastCall' = NoCall
    /\ UNCHANGED <<trProjects, trWorklogs>>

\* 23-45: WorklogView.Walk fetches the worklog, then looks at the name.
WorklogWalk(file, ans) ==
    /\ ans = "ok" => ViewedWorklog \in trWorklogs
    /\ last' = Op("walk", "worklog", file,
                  IF ans # "ok" THEN "RemoteError"
                  ELSE IF file \in {<<"comment">>, <<"author">>, <<"time">>, <<"started">>}
                         THEN "file" ELSE "NotFound")
    /\ lastCall' = [Call("GetSpecificWorklogForIssue", IssueKey) EXCEPT !.ans = ans]
    /\ UNCHANGED <<trProjects, trWorklogs, nv>>

\* The tracker's projects or the issue's worklogs change; the listing taken
\* before is of another state.
NodeTrackerChange(ps, ws) ==
    /\ <<ps, ws>> # <<trProjects, trWorklogs>>
    /\ trProjects' = ps
    /\ trWorklogs' = ws
    /\ nv' = NoNv
    /\ last' = Op("none", "any", Empty, "ok")
    /\ lastCall' = NoCall

InitNodes ==
    /\ trProjects \in SUBSET ProjectKeys
    /\ trWorklogs \in SUBSET WorklogIds
    /\ nv = NoNv

QuietNodes ==
    /\ trProjects = {ViewedProject}
    /\ trWorklogs = {ViewedWorklog}
    /\ nv = NoNv

(***************************************************************************)
(* The three mutexes of the namespace: jw.searchLock (jira.go:927-930),    *)
(* iw.issueLock (jira.go:202-209) and sw.resultLock (jira.go:626-630).     *)
(* Here a critical section is not one step: every Lock, every Unlock,      *)
(* every tracker call and every stretch of plain code between them is a    *)
(* step of its own, so that requests interleave inside the handlers.  A    *)
(* handler is the set of the step sequences its branches run through;      *)
(* which branch a request takes is left open.  There is one JiraView;      *)
(* the IssueView and the SearchView a request works on is one of two.      *)
(***************************************************************************)
LockEv(l) == [k |-> "lock", x |-> l]

UnlockEv(l) == [k |-> "unlock", x |-> l]

CallEv(n) == [k |-> "call", x |-> n]

LocalEv == [k |-> "local", x |-> "none"]

Instances == {"a", "b"}

\* The mutexes: the root's, each view's, and the one of the SearchView a
\* running `search` command has built and not yet put into jw.searches.
LockIds == {<<"searchLock", "root">>}
             \cup { <<"issueLock", i>> : i \in Instances }
             \cup { <<"resultLock", i>> : i \in Instances \cup Procs }

\* 932-1077: JiraView.Walk locks at 933 and unlocks, deferred (934), when it
\* returns; nothing in between calls the tracker.
JiraViewWalkSteps ==
    { <<LockEv("searchLock"), LocalEv, UnlockEv("searchLock")>> }

\* 1079-1096: JiraView.List, locked from 1080 to its return (1081).
JiraViewListSteps ==
    { <<LockEv("searchLock"), LocalEv, UnlockEv("searchLock")>> }

\* 1098-1116: JiraView.Remove refuses a fixed name without the lock
\* (1100-1101); else it is locked from 1103 to its return (1104).
JiraViewRemoveSteps ==
    { <<LocalEv>>,
      <<LockEv("searchLock"), LocalEv, UnlockEv("searchLock")>> }

\* 632-642: SearchView.search calls the tracker, then stores the keys under
\* the view's resultLock.
SearchViewSearchSteps(l) ==
    <<CallEv("GetKeysForSearch"), LockEv(l), LocalEv, UnlockEv(l)>>

\* A `search` command that runs the query and the insertion under searchLock.
SearchCmdStepsUnderLock ==
    { <<LocalEv>>,
      <<LockEv("searchLock"), LocalEv>> \o SearchViewSearchSteps("ownResultLock")
          \o <<LocalEv, UnlockEv("searchLock")>> }

\* 941-956: the `search` command of the root ctl: no query (942-944); or a
\* new SearchView (946), its search (947), and the insertion under
\* searchLock (952-954).
SearchCmdSteps ==
    { <<LocalEv>>,
      <<LocalEv>> \o SearchViewSearchSteps("ownResultLock")
          \o <<LockEv("searchLock"), LocalEv, UnlockEv("searchLock")>> }

\* 596-598, 608-610: Walk and List read newIssue under issueLock.
IssueViewModeSteps ==
    <<LockEv("issueLock"), LocalEv, UnlockEv("issueLock")>>

\* 595-605: IssueView.Walk, then newWalk (224-304): a name not served or
\* ctl (225-280), or a draft file, locked from 284 to the return (285);
\* or normalWalk (319-592): a name not served (320-323), or GetIssue (325)
\* and, for `transition`, GetTransitionsForIssue (408).
IssueViewWalkSteps ==
    { IssueViewModeSteps \o <<LocalEv>>,
      IssueViewModeSteps \o <<LocalEv, LockEv("issueLock"), LocalEv, UnlockEv("issueLock")>>,
      IssueViewModeSteps \o <<LocalEv, CallEv("GetIssue"), LocalEv>>,
      IssueViewModeSteps \o <<LocalEv, CallEv("GetIssue"),
                              CallEv("GetTransitionsForIssue"), LocalEv>> }

\* 607-624: IssueView.List
IssueViewListSteps ==
    { IssueViewModeSteps \o <<LocalEv>> }

\* 234-279: the `commit` command: the read under issueLock (236-244); then
\* the refusal of a committed issue (250-252), or CreateIssue (267) and the
\* assignment under issueLock (273-277).
CommitCmdSteps ==
    { <<LockEv("issueLock"), LocalEv, UnlockEv("issueLock"), LocalEv>>,
      <<LockEv("issueLock"), LocalEv, UnlockEv("issueLock"), LocalEv,
        CallEv("CreateIssue"),
        LockEv("issueLock"), LocalEv, UnlockEv("issueLock")>> }

\* 295-301: onClose of a draft file, locked from 296 to its return (297).
DraftOnCloseSteps ==
    { <<LockEv("issueLock"), LocalEv, UnlockEv("issueLock")>> }

\* 644-668: SearchView.Walk reads the keys under resultLock (645-647); the
\* name is not among them (649-651), or GetIssue (653).
SearchViewWalkSteps ==
    { <<LockEv("resultLock"), LocalEv, UnlockEv("resultLock"), LocalEv>>,
      <<LockEv("resultLock"), LocalEv, UnlockEv("resultLock"),
        CallEv("GetIssue"), LocalEv>> }

\* 670-680: SearchView.List: search (671), then the keys read under
\* resultLock (675-677).
SearchViewListSteps ==
    { SearchViewSearchSteps("resultLock")
          \o <<LockEv("resultLock"), LocalEv, UnlockEv("resultLock"), LocalEv>> }

\* The operations a request may be, by name.
Handlers ==
    [JiraViewWalk   |-> JiraViewWalkSteps,
     JiraViewList   |-> JiraViewListSteps,
     JiraViewRemove |-> JiraViewRemoveSteps,
     SearchCmd      |-> SearchCmdSteps,
     IssueViewWalk  |-> IssueViewWalkSteps,
     IssueViewList  |-> IssueViewListSteps,
     CommitCmd      |-> CommitCmdSteps,
     DraftOnClose   |-> DraftOnCloseSteps,
     SearchViewWalk |-> SearchViewWalkSteps,
     SearchViewList |-> SearchViewListSteps]

Idle == [op |-> "none", inst |-> "none", path |-> Empty, i |-> 1]

\* The step a request is about to take.
NextEv(p) == th[p].path[th[p].i]

Running(p) == th[p].op # "none"

\* The mutex an event of request p names.
LockOf(p, e) ==
    CASE e.x = "searchLock"    -> <<"searchLock", "root">>
      [] e.x = "ownResultLock" -> <<"resultLock", p>>
      [] OTHER                 -> <<e.x, th[p].inst>>

\* The request after its step: at the next one, or returned.
Advance(p) ==
    IF th[p].i = Len(th[p].path) THEN [th EXCEPT ![p] = Idle]
                                 ELSE [th EXCEPT ![p].i = @ + 1]

\* The protocol layer hands a request to a handler of a view.
OpStart(p, op, inst, path) ==
    /\ ~Running(p)
    /\ path \in Handlers[op]
    /\ th' = [th EXCEPT ![p] = [op |-> op, inst |-> inst, path |-> path, i |-> 1]]
    /\ last' = Op("start", p, op, "running")
    /\ lastCall' = NoCall
    /\ UNCHANGED holder

\* sync.Mutex.Lock: the request goes on once nobody holds the mutex.
OpLock(p) ==
    /\ Running(p) /\ NextEv(p).k = "lock"
    /\ holder[LockOf(p, NextEv(p))] = "none"
    /\ holder' = [holder EXCEPT ![LockOf(p, NextEv(p))] = p]
    /\ th' = Advance(p)
    /\ last' = Op("lock", p, th[p].op, "running")
    /\ lastCall' = NoCall

\* sync.Mutex.Unlock
OpUnlock(p) ==
    /\ Running(p) /\ NextEv(p).k = "unlock"
    /\ holder' = [holder EXCEPT ![LockOf(p, NextEv(p))] = "none"]
    /\ th' = Advance(p)
    /\ last' = Op("unlock", p, th[p].op, "running")
    /\ lastCall' = NoCall

\* Code that touches memory only.
OpLocal(p) ==
    /\ Running(p) /\ NextEv(p).k = "local"
    /\ th' = Advance(p)
    /\ last' = Op("local", p, th[p].op, "running")
    /\ lastCall' = NoCall
    /\ UNCHANGED holder

\* A tracker call that succeeds.
OpCallOk(p) ==
    /\ Running(p) /\ NextEv(p).k = "call"
    /\ th' = Advance(p)
    /\ last' = Op("call", p, th[p].op, "running")
    /\ lastCall' = Call(NextEv(p).x, Empty)
    /\ UNCHANGED holder

\* A tracker call that fails: every handler returns the error at once
\* (634-636, 948-950, 268-271, 326-328, 409-412, 654-656, 671-673).
OpCallFail(p) ==
    /\ Running(p) /\ NextEv(p).k = "call"
    /\ th' = [th EXCEPT ![p] = Idle]
    /\ last' = Op("call", p, th[p].op, "RemoteError")
    /\ lastCall' = Refused(Call(NextEv(p).x, Empty))
    /\ UNCHANGED holder

InitLocks ==
    /\ holder = [l \in LockIds |-> "none"]
    /\ th = [p \in Procs |-> Idle]

InitLinks ==
    /\ trLinks \in LinkLists
    /\ nextLink = 3
    /\ lk = NoLk

QuietLinks == trLinks = Empty /\ nextLink = 3 /\ lk = NoLk

QuietLate == QuietDraft /\ QuietNodes /\ InitLocks

QuietMore == QuietLinks /\ QuietPath /\ QuietStatus /\ InitListing /\ QuietField /\ QuietLate

\* The rest of the namespace stands still while one part of it is exercised.
QuietIssue == InitIssue /\ project = Empty

QuietRoot == InitRoot /\ found = <<"A-1">>

notIssue == <<rootVars, fileVars, moreVars>>

notRoot == <<issueVars, fileVars, moreVars>>

notFile == <<issueVars, rootVars, moreVars>>

Init == InitIssue /\ QuietRoot /\ InitFile /\ QuietMore

Next ==
    \/ \E p \in Procs : CommitRead(p) /\ UNCHANGED notIssue
    \/ \E p \in Procs : CommitResolve(p) /\ UNCHANGED notIssue
    \/ \E p \in Procs : CommitReject(p) /\ UNCHANGED notIssue
    \/ \E p \in Procs : CommitCreateOk(p) /\ UNCHANGED notIssue
    \/ \E p \in Procs : CommitCreateFail(p) /\ UNCHANGED notIssue
    \/ \E p \in Procs : CommitAssign(p) /\ UNCHANGED notIssue
    \/ \E p \in Procs : \E file \in draftFiles : \E content \in DraftInputs(file) :
           DraftClose(p, file, content) /\ UNCHANGED notIssue

Spec == Init /\ [][Next]_vars

RootInit == QuietIssue /\ InitRoot /\ InitFile /\ QuietMore

RootNext ==
    \/ \E file \in RootNames : RootWalk(file) /\ UNCHANGED notRoot
    \/ RootList /\ UNCHANGED notRoot
    \/ \E file \in RootNames : RootRemove(file) /\ UNCHANGED notRoot
    \/ \E p \in Procs : SearchQueryMissing(p) /\ UNCHANGED notRoot
    \/ \E p \in Procs : \E name \in SearchNames :
           SearchRun(p, name) /\ UNCHANGED notRoot
    \/ \E p \in Procs : \E name \in SearchNames :
           SearchRunFail(p, name) /\ UNCHANGED notRoot
    \/ \E p \in Procs : SearchInsert(p) /\ UNCHANGED notRoot
    \/ \E keys \in KeyLists : TrackerChange(keys) /\ UNCHANGED notRoot

SpecRoot == RootInit /\ [][RootNext]_vars

SearchInit == QuietIssue /\ InitSearch /\ InitFile /\ QuietMore

SearchNext ==
    \/ \E p \in Procs : \E v \in 1..nViews : ListFetch(p, v) /\ UNCHANGED notRoot
    \/ \E p \in Procs : \E v \in 1..nViews : ListFail(p, v) /\ UNCHANGED notRoot
    \/ \E p \in Procs : ListStore(p) /\ UNCHANGED notRoot
    \/ \E p \in Procs : ListReturn(p) /\ UNCHANGED notRoot
    \/ \E v \in 1..nViews : \E file \in IssueNames :
           SearchWalkMiss(v, file) /\ UNCHANGED notRoot
    \/ \E v \in 1..nViews : \E file \in IssueNames :
           \E outcome \in {"dir", "RemoteError", "nil fields in issue"} :
               SearchWalkHit(v, file, outcome) /\ UNCHANGED notRoot
    \/ \E keys \in KeyLists : TrackerChange(keys) /\ UNCHANGED notRoot

SpecSearch == SearchInit /\ [][SearchNext]_vars

FileInit == QuietIssue /\ QuietRoot /\ InitFile /\ QuietMore

\* The issue view and the comment tree share no state: a behaviour that
\* exercises one of them leaves the other as it was created.
IssueAtRest == nCommits = 0 /\ normalCtls = {}

FileAtRest == InitFile

FileNext ==
    \/ IssueAtRest /\ CommentListWalkNew /\ UNCHANGED notFile
    \/ \E id \in CommentIds :
           IssueAtRest /\ CommentListWalkId(id) /\ UNCHANGED notFile
    \/ IssueAtRest /\ CommentListList /\ UNCHANGED notFile
    \/ IssueAtRest /\ CommentListListFail /\ UNCHANGED notFile
    \/ IssueAtRest /\ CommentListRemoveFile /\ UNCHANGED notFile
    \/ \E id \in CommentIds :
           IssueAtRest /\ CommentListRemove(id) /\ UNCHANGED notFile
    \/ \E id \in CommentIds :
           IssueAtRest /\ CommentWalkMissing(id) /\ UNCHANGED notFile
    \/ \E id \in CommentIds : \E file \in {"author", "comment", "updated", "created"} :
           IssueAtRest /\ CommentWalkFail(id, file) /\ UNCHANGED notFile
    \/ \E id \in CommentIds : \E file \in {"author", "updated", "created"} :
           IssueAtRest /\ CommentWalkPlain(id, file) /\ UNCHANGED notFile
    \/ \E id \in CommentIds : \E body \in Bodies :
           IssueAtRest /\ CommentWalkComment(id, body) /\ UNCHANGED notFile
    \/ IssueAtRest /\ CommentList /\ UNCHANGED notFile
    \/ \E mode \in {"r", "w"} :
           IssueAtRest /\ SessOpen(mode) /\ UNCHANGED notFile
    \/ \E off \in {0, Len(sess.buf)} : \E data \in WriteData :
           IssueAtRest /\ SessWrite(off, data) /\ UNCHANGED notFile
    \/ IssueAtRest /\ SessCloseRead /\ UNCHANGED notFile
    \/ IssueAtRest /\ SessCloseOk /\ UNCHANGED notFile
    \/ IssueAtRest /\ SessCloseFail /\ UNCHANGED notFile
    \/ IssueAtRest /\ SessDisconnect /\ UNCHANGED notFile
    \/ \E file \in IssueWalkNames :
           FileAtRest /\ IssueWalkMissing(file) /\ UNCHANGED notIssue
    \/ \E file \in IssueWalkNames :
           FileAtRest /\ IssueWalkNew(file) /\ UNCHANGED notIssue
    \/ \E file \in IssueWalkNames :
           FileAtRest /\ IssueWalkNormal(file) /\ UNCHANGED notIssue
    \/ \E file \in IssueWalkNames :
           FileAtRest /\ IssueWalkNormalFail(file) /\ UNCHANGED notIssue
    \/ FileAtRest /\ IssueList /\ UNCHANGED notIssue
    \/ \E key \in normalCtls : \E res \in {"ok", "RemoteError"} :
           FileAtRest /\ NormalCtlDelete(key, res) /\ UNCHANGED notIssue
    \/ FileAtRest /\ CommitRead("p1") /\ UNCHANGED notIssue
    \/ FileAtRest /\ CommitResolve("p1") /\ UNCHANGED notIssue
    \/ FileAtRest /\ CommitReject("p1") /\ UNCHANGED notIssue
    \/ FileAtRest /\ CommitCreateOk("p1") /\ UNCHANGED notIssue
    \/ FileAtRest /\ CommitCreateFail("p1") /\ UNCHANGED notIssue
    \/ FileAtRest /\ CommitAssign("p1") /\ UNCHANGED notIssue

SpecFile == FileInit /\ [][FileNext]_vars

C2_CommitOnce == nCreate <= 1 /\ nAssign <= 1

\* C3: a commit whose CreateIssue fails returns the error and leaves
\* newIssue, issueNo, project and the draft values as they were; every
\* commit that starts while the view is new sees it new and goes to the
\* tracker again.
C3_FailedCommitKeepsDraft ==
    [][\A p \in Procs :
          /\ (cpc[p] = "resolved" /\ loc[p].isNew /\ cpc'[p] = "idle") =>
                /\ last'.res = "RemoteError"
                /\ lastCall'.name = "CreateIssue"
                /\ UNCHANGED <<newIssue, issueNo, project, values>>
          /\ (cpc[p] = "idle" /\ cpc'[p] = "read" /\ newIssue) => loc'[p].isNew
          /\ (cpc[p] = "resolved" /\ loc[p].isNew /\ cpc'[p] # cpc[p]) =>
                nCreate' = nCreate + 1]_vars

\* C3 witness: two commits have gone to the tracker, the latest has just
\* failed, and the view is still an uncommitted draft.
C3_Witness ==
    /\ last.op = "ctlwrite" /\ last.res = "RemoteError"
    /\ nCreate >= 2 /\ newIssue /\ issueNo = Empty
    /\ \A p \in Procs : cpc[p] = "idle"

\* C4 (as claimed): CreateIssue is never called with an empty project or an
\* empty issue type.
C4_ValidatesBeforeCreate ==
    lastCall.name = "CreateIssue" =>
        lastCall.project # Empty /\ lastCall.type # Empty

\* C4 (amended): commit takes the draft's project and type with their
\* newlines removed, replaces an empty project by the inherited one, and
\* hands both to CreateIssue whenever it saw the view new, empty or not.
C4_ResolvesProjectThenCreates ==
    [][\A p \in Procs :
          /\ (cpc[p] = "idle" /\ cpc'[p] = "read") =>
                /\ loc'[p].project = StripNewlines(values["project"])
                /\ loc'[p].issuetype = StripNewlines(values["type"])
          /\ (cpc[p] = "read" /\ cpc'[p] = "resolved") =>
                /\ loc'[p].issuetype = loc[p].issuetype
                /\ loc'[p].project =
                      (IF loc[p].project # Empty THEN loc[p].project ELSE project)
          /\ (cpc[p] = "resolved" /\ loc[p].isNew /\ cpc'[p] # cpc[p]) =>
                /\ lastCall'.name = "CreateIssue"
                /\ lastCall'.project = loc[p].project
                /\ lastCall'.type = loc[p].issuetype]_vars

\* C4 witness: CreateIssue was called with the inherited project and with no
\* issue type, the draft's own project being a bare newline.
C4_Witness ==
    /\ lastCall.name = "CreateIssue"
    /\ lastCall.project = <<"c">> /\ lastCall.type = Empty
    /\ values["project"] = <<NL>>

(***************************************************************************)
(* Claims about the root view's named searches, checked under SpecRoot.    *)
(***************************************************************************)
\* C7: Remove of ctl, projects, issues, help or structure on the root view
\* fails with PermissionDenied and leaves the search table as it was.
C7_FixedEntriesCannotBeRemoved ==
    [][(/\ last'.op = "remove"
        /\ last'.arg \in {"ctl", "projects", "issues", "help", "structure"}) =>
           /\ last'.res = "PermissionDenied"
           /\ searches' = searches]_vars

\* C7 witness: a search is entered under the name ctl and Remove of ctl has
\* just been refused.
C7_Witness ==
    /\ last.op = "remove" /\ last.arg = "ctl"
    /\ last.res = "PermissionDenied"
    /\ searches["ctl"] # 0

\* C8: a successful Remove takes exactly the named search out of the table;
\* a name comes (back) into the table only by a successful `search` command
\* for it; root Walk of a name that is no fixed entry finds a directory
\* exactly when the name is in the table, and root List shows exactly the
\* table's names beside the fixed entries; Remove of a name that is not in
\* the table fails with no-such-file and changes nothing.
C8_RemovedSearchIsGone ==
    [][/\ (last'.op = "remove" /\ last'.res = "ok") =>
              /\ searches[last'.arg] # 0
              /\ searches' = [searches EXCEPT ![last'.arg] = 0]
       /\ (/\ last'.op = "remove"
           /\ last'.arg \notin RootFixedEntries
           /\ searches[last'.arg] = 0) =>
              /\ last'.res = "ErrNoSuchFile"
              /\ searches' = searches
       /\ \A n \in RootNames :
              (searches[n] = 0 /\ searches'[n] # 0) =>
                  /\ last'.op = "ctlwrite"
                  /\ last'.arg = n
                  /\ last'.res = "ok"
       /\ (last'.op = "walk" /\ last'.arg \notin RootFixedEntries) =>
              /\ searches' = searches
              /\ (last'.res = "NotFound") = (searches[last'.arg] = 0)
       /\ (last'.op = "list") =>
              /\ searches' = searches
              /\ \A n \in RootNames \ RootFixedEntries :
                     (n \in last'.out) = (searches[n] # 0)]_vars

\* C8 witness: a search was entered under the name s and removed again (no
\* other search exists), and a root Walk of s has just found nothing.
C8_Witness ==
    /\ last.op = "walk" /\ last.arg = "s" /\ last.res = "NotFound"
    /\ nViews >= 1
    /\ \A n \in RootNames : searches[n] = 0

(***************************************************************************)
(* Claims about one SearchView, checked under SpecSearch.                  *)
(***************************************************************************)
\* C9 (as claimed): the entries a successful List returns, and the results
\* stored when it returns, are the keys the tracker gave to the query that
\* this List call ran.
C9_ListReturnsOwnQuery ==
    (last.op = "svlist" /\ last.res = "ok") =>
        /\ last.out.entries = last.out.fetched
        /\ views[last.arg] = last.out.fetched

\* C10: Walk on a SearchView runs no search query and leaves the stored
\* results alone; a name that is not among the stored results fails with
\* no-such-file, and only a name among them resolves to a directory.
C10_WalkUsesStoredResults ==
    [][(last'.op = "svwalk") =>
          /\ views' = views
          /\ lastCall'.name # "GetKeysForSearch"
          /\ (last'.arg[2] \notin Range(views[last'.arg[1]]) =>
                 last'.res = "ErrNoSuchFile")
          /\ (last'.res = "dir" =>
                 last'.arg[2] \in Range(views[last'.arg[1]]))]_vars

\* C10 witness: a Walk has just failed for a key the tracker would return
\* now but the last search did not.
C10_Witness ==
    /\ last.op = "svwalk" /\ last.res = "ErrNoSuchFile"
    /\ last.arg[2] \in Range(found)
    /\ last.arg[2] \notin Range(views[last.arg[1]])

(***************************************************************************)
(* The write-back of a `links` file.                                       *)
(***************************************************************************)
base == <<issueVars, rootVars, fileVars, lateVars>>

LinksInit == QuietIssue /\ QuietRoot /\ InitFile /\ InitLinks /\ QuietPath /\ QuietStatus /\ InitListing /\ QuietField /\ QuietLate

LinksNext ==
    \/ LinksWalk /\ UNCHANGED <<base, pathVars, statusVars, listVars, fieldVars>>
    \/ LinksWalkNoFields /\ UNCHANGED <<base, pathVars, statusVars, listVars, fieldVars>>
    \/ \E t \in LinkInputs : LinksCloseFault(t) /\ UNCHANGED <<base, pathVars, statusVars, listVars, fieldVars>>
    \/ \E i \in 1..2 : LinksTrackerDrop(i) /\ UNCHANGED <<base, pathVars, statusVars, listVars, fieldVars>>
    \/ \E t \in LinkInputs : LinksClose(t) /\ UNCHANGED <<base, pathVars, statusVars, listVars, fieldVars>>
    \/ \E k \in LinkLines, ans \in {"ok", "error"} : LinksDelete(k, ans) /\ UNCHANGED <<base, pathVars, statusVars, listVars, fieldVars>>
    \/ LinksSkip /\ UNCHANGED <<base, pathVars, statusVars, listVars, fieldVars>>
    \/ \E ans \in {"ok", "error"} : LinksLink(ans) /\ UNCHANGED <<base, pathVars, statusVars, listVars, fieldVars>>
    \/ LinksReturn /\ UNCHANGED <<base, pathVars, statusVars, listVars, fieldVars>>

SpecLinks == LinksInit /\ [][LinksNext]_vars

(***************************************************************************)
(* The resolver on its own: every graph of at most MaxEdges transitions,   *)
(* every pair of statuses, every maxSteps up to MaxSteps.                  *)
(***************************************************************************)
PathInit == QuietIssue /\ QuietRoot /\ InitFile /\ QuietLinks /\ InitPath /\ QuietStatus /\ InitListing /\ QuietField /\ QuietLate

PathNext ==
    \/ PathCall /\ UNCHANGED <<base, linkVars, statusVars, listVars, fieldVars>>

SpecPath == PathInit /\ [][PathNext]_vars

(***************************************************************************)
(* The write-back of a `status` file.                                      *)
(***************************************************************************)
StatusInit == QuietIssue /\ QuietRoot /\ InitFile /\ QuietLinks /\ QuietPath /\ InitStatus /\ InitListing /\ QuietField /\ QuietLate

StatusNext ==
    \/ StatusWalk /\ UNCHANGED <<base, linkVars, pathVars, listVars, fieldVars>>
    \/ \E b \in StatusInputs : StatusClose(b) /\ UNCHANGED <<base, linkVars, pathVars, listVars, fieldVars>>
    \/ \E b \in StatusInputs, e \in {"RemoteError", "oops", "oops2"} :
           StatusCloseFail(b, e) /\ UNCHANGED <<base, linkVars, pathVars, listVars, fieldVars>>
    \/ StatusBuildFail /\ UNCHANGED <<base, linkVars, pathVars, listVars, fieldVars>>
    \/ StatusNoPath /\ UNCHANGED <<base, linkVars, pathVars, listVars, fieldVars>>
    \/ StatusPath /\ UNCHANGED <<base, linkVars, pathVars, listVars, fieldVars>>
    \/ StatusTransitionOk /\ UNCHANGED <<base, linkVars, pathVars, listVars, fieldVars>>
    \/ StatusTransitionFail /\ UNCHANGED <<base, linkVars, pathVars, listVars, fieldVars>>
    \/ StatusReturn /\ UNCHANGED <<base, linkVars, pathVars, listVars, fieldVars>>

SpecStatus == StatusInit /\ [][StatusNext]_vars

(***************************************************************************)
(* The issue listings and the directories they lead to.                    *)
(***************************************************************************)
notListing == <<base, linkVars, pathVars, statusVars, fieldVars>>

ListingInit == QuietIssue /\ QuietRoot /\ InitFile /\ QuietLinks /\ QuietPath /\ QuietStatus /\ InitListing /\ QuietField /\ QuietLate

ListingNext ==
    \/ ProjectList /\ UNCHANGED notListing
    \/ ProjectListFail /\ UNCHANGED notListing
    \/ \E v \in {"project", "all"} : ListingWalkNew(v) /\ UNCHANGED notListing
    \/ \E n \in ListingNames : ProjectWalkMissing(n) /\ UNCHANGED notListing
    \/ \E n \in ListingNames, a \in {"ok", "error"} : ProjectWalk(n, a) /\ UNCHANGED notListing
    \/ AllList /\ UNCHANGED notListing
    \/ AllListFail /\ UNCHANGED notListing
    \/ \E n \in ListingNames : AllWalkText(n) /\ UNCHANGED notListing
    \/ \E n \in ListingNames : AllWalkMissing(n) /\ UNCHANGED notListing
    \/ \E n \in ListingNames, a \in {"ok", "error", "nofields"} : AllWalk(n, a) /\ UNCHANGED notListing
    \/ \E a \in {"ok", "error"} : KeyWalk(a) /\ UNCHANGED notListing
    \/ \E k \in AllKeys : TrackerDelete(k) /\ UNCHANGED notListing

SpecListing == ListingInit /\ [][ListingNext]_vars

(***************************************************************************)
(* Two clients on the field files of one issue.                            *)
(***************************************************************************)
notField == <<base, linkVars, pathVars, statusVars, listVars>>

FieldInit == QuietIssue /\ QuietRoot /\ InitFile /\ QuietLinks /\ QuietPath /\ QuietStatus /\ InitListing /\ InitField /\ QuietLate

FieldNext ==
    \/ \E c \in Clients : \E f \in WalkFiles(c) : FieldWalk(c, f) /\ UNCHANGED notField
    \/ \E c \in Clients : \E f \in WalkFiles(c) : FieldWalkFail(c, f) /\ UNCHANGED notField
    \/ \E c \in Clients, m \in {"r", "w"} : FieldOpen(c, m) /\ UNCHANGED notField
    \/ \E c \in Clients, d \in FieldData :
           FieldWrite(c, NextOffset(c), d) /\ UNCHANGED notField
    \/ \E c \in Clients : FieldCloseRead(c) /\ UNCHANGED notField
    \/ \E c \in Clients : FieldCloseOk(c) /\ UNCHANGED notField
    \/ \E c \in Clients : FieldCloseFail(c) /\ UNCHANGED notField

SpecField == FieldInit /\ [][FieldNext]_vars

(***************************************************************************)
(* Two clients on the `new` entry of one issue list.                       *)
(***************************************************************************)
early == <<issueVars, rootVars, fileVars, linkVars, pathVars, statusVars,
           listVars, fieldVars>>

QuietEarly == QuietIssue /\ QuietRoot /\ InitFile /\ QuietLinks /\ QuietPath /\ QuietStatus /\ InitListing /\ QuietField

notDraft == <<early, nodeVars, lockVars>>

DraftInit == QuietEarly /\ InitDraft /\ QuietNodes /\ InitLocks

DraftNext ==
    \/ \E c \in Clients : IssuesWalkNew(c) /\ UNCHANGED notDraft
    \/ \E c \in Clients, f \in DraftWalkFiles : DraftFileWalk(c, f) /\ UNCHANGED notDraft
    \/ \E c \in Clients, f \in DraftWalkFiles : \E content \in DraftInputs(f) :
           dc[c].file = f /\ DraftFileClose(c, content) /\ UNCHANGED notDraft
    \/ \E c \in Clients : DraftCommitRead(c) /\ UNCHANGED notDraft
    \/ \E c \in Clients : DraftCommitResolve(c) /\ UNCHANGED notDraft
    \/ \E c \in Clients : DraftCommitReject(c) /\ UNCHANGED notDraft
    \/ \E c \in Clients : DraftCommitCreateOk(c) /\ UNCHANGED notDraft
    \/ \E c \in Clients : DraftCommitCreateFail(c) /\ UNCHANGED notDraft
    \/ \E c \in Clients : DraftCommitAssign(c) /\ UNCHANGED notDraft

SpecDraft == DraftInit /\ [][DraftNext]_vars

(***************************************************************************)
(* The listings and the Walks of the project views and the worklog views.  *)
(***************************************************************************)
notNodes == <<early, draftVars, lockVars>>

NodesInit == QuietEarly /\ QuietDraft /\ InitNodes /\ InitLocks

NodesNext ==
    \/ ProjectsList /\ UNCHANGED notNodes
    \/ \E n \in NodeNames : ProjectsFail("walk", n) /\ UNCHANGED notNodes
    \/ ProjectsFail("list", Empty) /\ UNCHANGED notNodes
    \/ \E n \in NodeNames : ProjectsWalk(n) /\ UNCHANGED notNodes
    \/ ProjectViewList /\ UNCHANGED notNodes
    \/ \E n \in NodeNames : ProjectViewWalkLocal(n) /\ UNCHANGED notNodes
    \/ \E n \in NodeNames, a \in {"ok", "error"} :
           ProjectViewWalkFile(n, a) /\ UNCHANGED notNodes
    \/ WorklogListList /\ UNCHANGED notNodes
    \/ \E n \in NodeNames : WorklogListFail("walk", n) /\ UNCHANGED notNodes
    \/ WorklogListFail("list", Empty) /\ UNCHANGED notNodes
    \/ \E n \in NodeNames : WorklogListWalk(n) /\ UNCHANGED notNodes
    \/ WorklogList /\ UNCHANGED notNodes
    \/ \E n \in NodeNames, a \in {"ok", "error"} : WorklogWalk(n, a) /\ UNCHANGED notNodes
    \/ \E ps \in SUBSET ProjectKeys, ws \in SUBSET WorklogIds :
           NodeTrackerChange(ps, ws) /\ UNCHANGED notNodes

SpecNodes == NodesInit /\ [][NodesNext]_vars

(***************************************************************************)
(* Two requests running in the handlers that take a mutex.                 *)
(***************************************************************************)
notLocks == <<early, draftVars, nodeVars>>

LocksInit == QuietEarly /\ QuietDraft /\ QuietNodes /\ InitLocks

LocksNext ==
    \/ \E p \in Procs, op \in DOMAIN Handlers, inst \in Instances :
           \E path \in Handlers[op] : OpStart(p, op, inst, path) /\ UNCHANGED notLocks
    \/ \E p \in Procs : OpLock(p) /\ UNCHANGED notLocks
    \/ \E p \in Procs : OpUnlock(p) /\ UNCHANGED notLocks
    \/ \E p \in Procs : OpLocal(p) /\ UNCHANGED notLocks
    \/ \E p \in Procs : OpCallOk(p) /\ UNCHANGED notLocks
    \/ \E p \in Procs : OpCallFail(p) /\ UNCHANGED notLocks

SpecLocks == LocksInit /\ [][LocksNext]_vars

(***************************************************************************)
(* Claims about write sessions and tracker mutations, checked under        *)
(* SpecFile.                                                               *)
(***************************************************************************)
\* C5: a `comment` file opened for writing runs its commit callback exactly
\* once, at its close, with the bytes the buffer holds at that moment, and
\* the close returns the callback's result; a file that was only read, is
\* still open, or was abandoned by its client has run no callback.
C5_CommitOnceAtClose ==
    /\ sess.commits = (IF sess.st = "closed" /\ sess.mode = "w" THEN 1 ELSE 0)
    /\ (last.op = "close" /\ sess.mode = "w") =>
           /\ lastCall.name = (IF sess.kind = "add" THEN "AddComment" ELSE "SetComment")
           /\ lastCall.body = sess.buf
           /\ last.res = (IF lastCall.ans = "ok" THEN "ok" ELSE "RemoteError")
    /\ (last.op = "close" /\ sess.mode = "r") => lastCall.name = "none"
    /\ (last.op = "disconnect") => lastCall.name = "none"

\* C5 witness: a comment's file, seeded with its body and written once more,
\* has just been closed; SetComment got both bytes, failed, and the close
\* returned the error.
C5_Witness ==
    /\ last.op = "close" /\ last.res = "RemoteError"
    /\ sess.kind = "set" /\ sess.st = "closed" /\ sess.commits = 1
    /\ lastCall.name = "SetComment" /\ Len(lastCall.body) = 2

\* C6 (as claimed): a mutating tracker call is made only by the close of a
\* file.
C6_OnlyCloseMutates ==
    lastCall.name \in MutatingCalls => last.op = "close"

\* C6 (amended): a mutating tracker call is made only by the close of a
\* written file (its commit callback), by a command written to a ctl file
\* (commit: CreateIssue, delete: DeleteIssue) or by Remove on an issue's
\* comment list (RemoveComment); no Walk, List, open, write to another file
\* or disconnect makes one.
C6_MutationsByCloseCtlOrRemove ==
    lastCall.name \in MutatingCalls =>
        \/ last.op = "close" /\ lastCall.name \in {"AddComment", "SetComment"}
        \/ last.op = "ctlwrite" /\ lastCall.name \in {"CreateIssue", "DeleteIssue"}
        \/ last.op = "remove" /\ lastCall.name = "RemoveComment"

\* C6 witness: Remove on the comment list has just removed a comment with
\* RemoveComment, no file being closed.
C6_Witness ==
    /\ last.op = "remove" /\ last.res = "ok"
    /\ lastCall.name = "RemoveComment"
    /\ lastCall.key \notin comments

(***************************************************************************)
(* Claims about the write-back of a `links` file, checked under SpecLinks. *)
(***************************************************************************)
\* The non-empty lines of the text the `links` file was closed with.
LinesOfText == SelectSeq(SplitOn(lk.text, NL), LAMBDA l : l # Empty)

\* The rendered lines of the links the issue had when the file was walked to.
LinesAtWalk == { renderIssueLink(lk.links[i], IssueKey) : i \in 1..Len(lk.links) }

\* The arguments of the calls of one name the write-back made, in order.
LinkCallsOf(n) ==
    LET cs == SelectSeq(lk.calls, LAMBDA c : c.name = n)
    IN  [i \in 1..Len(cs) |-> cs[i].arg]

\* C11: when the close of a `links` file returns, DeleteIssueLink has been
\* called once for each link of the Walk-time set whose line is not in the
\* text and for no other, and LinkIssues has been called for exactly the lines
\* of the text that are not in the Walk-time set, have three fields and name
\* the issue as first or second field.
C11_LinksDiff ==
    lk.st = "closed" =>
        /\ Range(LinkCallsOf("DeleteIssueLink")) =
               { lk.links[i].id : i \in { j \in 1..Len(lk.links) :
                     renderIssueLink(lk.links[j], IssueKey) \notin Range(LinesOfText) } }
        /\ Len(LinkCallsOf("DeleteIssueLink")) =
               Cardinality(Range(LinkCallsOf("DeleteIssueLink")))
        /\ LinkCallsOf("LinkIssues") =
               SelectSeq(LinesOfText, LAMBDA l :
                   /\ l \notin LinesAtWalk
                   /\ Len(SplitOn(l, SP)) = 3
                   /\ IssueKey \in {SplitOn(l, SP)[1], SplitOn(l, SP)[2]})

\* C12: when a DeleteIssueLink or LinkIssues call of the write-back was
\* refused, the close of the `links` file does not return success.
C12_FailedStepFailsClose ==
    (lk.st = "closed" /\ \E i \in 1..Len(lk.calls) : lk.calls[i].ans = "error")
        => last.res # "ok"

(***************************************************************************)
(* Claims about the workflow resolver, checked under SpecPath.             *)
(***************************************************************************)
\* The walks of k transitions from one status to another, as sequences of
\* positions in the graph.
WalksOf(g, from, to, k) ==
    { w \in [1..k -> 1..Len(g)] :
        /\ g[w[1]].from = from
        /\ g[w[k]].to = to
        /\ \A i \in 1..(k - 1) : g[w[i]].to = g[w[i + 1]].from }

\* w comes before v when, at the first step they differ, w takes the
\* transition the tracker listed earlier.
WalkBefore(w, v) ==
    \E i \in DOMAIN w : w[i] < v[i] /\ \A j \in 1..(i - 1) : w[j] = v[j]

\* C14: Path returns the transition names of a shortest walk from `from` to
\* `to` of at most maxSteps transitions, the first in the tracker's edge order
\* among those of that length, and NoPathFound when there is no such walk.
C14_PathIsFirstShortest ==
    (pathOut.done /\ pathIn.from # pathIn.to) =>
        LET g  == pathIn.g
            ks == { k \in 1..pathIn.max : WalksOf(g, pathIn.from, pathIn.to, k) # {} }
        IN  IF ks = {}
              THEN pathOut.res = NoPathFound
              ELSE LET k  == CHOOSE k \in ks : \A j \in ks : k <= j
                       ws == WalksOf(g, pathIn.from, pathIn.to, k)
                       w  == CHOOSE w \in ws : \A v \in ws : v = w \/ WalkBefore(w, v)
                   IN  pathOut.res = PathFound([i \in 1..k |-> g[w[i]].name])

\* C14 witness: Open --a--> InProgress --b--> Closed, asked for Open to
\* Closed, gives [a, b].
C14_Witness ==
    /\ pathOut.done
    /\ pathIn.g = << [from |-> <<"O">>, name |-> <<"a">>, to |-> <<"I">>],
                     [from |-> <<"I">>, name |-> <<"b">>, to |-> <<"C">>] >>
    /\ pathIn.from = <<"O">> /\ pathIn.to = <<"C">>
    /\ pathOut.res = PathFound(<< <<"a">>, <<"b">> >>)

(***************************************************************************)
(* Claims about the write-back of a `status` file, checked under           *)
(* SpecStatus.                                                             *)
(***************************************************************************)
RECURSIVE Follow(_, _, _)
\* The status reached from s by making the transitions named, in order.
Follow(g, s, names) ==
    IF names = Empty THEN s
    ELSE Follow(g, Target(g, s, Head(names)), Tail(names))

\* The transitions of the write-back the tracker made.
MadeTransitions ==
    LET cs == SelectSeq(sx.calls, LAMBDA c : c.ans = "ok")
    IN  [i \in 1..Len(cs) |-> cs[i].name]

\* C13: the close of a `status` file makes the transitions the resolver
\* returned one at a time and in order; after the first refused transition no
\* further one is made and the close returns the error; the issue stays in
\* the status the transitions made so far led to; the close returns success
\* only when every transition was made.
C13_TransitionsInOrderUntilFailure ==
    LET n == Len(sx.calls)
    IN  /\ n <= Len(sx.path)
        /\ \A i \in 1..n : sx.calls[i].name = sx.path[i]
        /\ \A i \in 1..(n - 1) : sx.calls[i].ans = "ok"
        /\ (n > 0 /\ sx.calls[n].ans = "error") =>
               (sx.st = "closed" /\ sx.res = "RemoteError" /\ last.res = "RemoteError")
        /\ sx.found => trStatus = Follow(wf, sx.cur, MadeTransitions)
        /\ (sx.st = "closed" /\ sx.res = "ok") =>
               (n = Len(sx.path) /\ \A i \in 1..n : sx.calls[i].ans = "ok")

\* C13 witness: of the two transitions from O to C the first was made and the
\* second refused; the close returned the error and the issue is left in I.
C13_Witness ==
    /\ sx.st = "closed" /\ sx.res = "RemoteError"
    /\ sx.cur = <<"O">> /\ sx.str = <<"C">>
    /\ Len(sx.path) = 2 /\ Len(sx.calls) = 2
    /\ sx.calls[1].ans = "ok" /\ sx.calls[2].ans = "error"
    /\ trStatus = <<"I">>

\* C15: when the status written is the status the issue is in, the resolver
\* returns the empty sequence and no error, no TransitionIssue call is made
\* and the close returns success.
C15_SameStatusIsEmptyPath ==
    /\ (sx.st \in {"running", "closed"} /\ sx.str = sx.cur /\ sx.res \notin {"RemoteError", "oops", "oops2"}) =>
           /\ sx.found /\ sx.path = Empty /\ sx.calls = Empty
           /\ sx.st = "closed" => sx.res = "ok"
    /\ sx.res = "NoPathFound" => sx.str # sx.cur

\* C15 witness: the issue is in O, "O\n" was written to its `status` file,
\* and the close returned success without a transition.
C15_Witness ==
    /\ sx.st = "closed" /\ sx.res = "ok" /\ last.op = "close"
    /\ sx.buf = <<"O", NL>> /\ sx.cur = <<"O">>
    /\ sx.found /\ sx.calls = Empty
    /\ trStatus = <<"O">>

(***************************************************************************)
(* Claims about the issue listings, checked under SpecListing.             *)
(***************************************************************************)
\* The issues the latest listing of a view named, as [name, key].
ListedIssues(view) ==
    IF lv.view = view THEN { e \in lv.entries : e.key # Empty } ELSE {}

\* C16: a Walk to a name that the view's latest listing gave for an issue is
\* never answered NotFound, and gives the issue's directory whenever the
\* tracker answers for the issue; the `key` file of that directory holds the
\* listed issue's key and a newline.
C16_ListedNamesResolve ==
    /\ \A view \in {"project", "all"} :
         (last.op = "walk" /\ last.who = view
             /\ \E e \in ListedIssues(view) : e.name = last.arg) =>
           /\ last.res # "NotFound"
           /\ (lastCall.ans = "ok" /\ last.res # "NoFields") => last.res = "dir"
    /\ lv.key # Empty =>
         \A e \in ListedIssues(lv.walked) : e.name = lv.name => lv.key = e.key \o <<NL>>

\* C16 witness: the project's listing gave "2", the Walk to "2" gave a
\* directory, and its `key` file holds "P-2\n".
C16_Witness ==
    /\ lv.view = "project" /\ lv.walked = "project"
    /\ \E e \in lv.entries : e.name = <<"2">> /\ e.key = <<"P", "-", "2">>
    /\ lv.name = <<"2">>
    /\ lv.key = <<"P", "-", "2", NL>>

(***************************************************************************)
(* Claims about the field files, checked under SpecField.                  *)
(***************************************************************************)
\* The fields whose commit makes one line of the buffer, and the fields
\* of several lines.
ScalarFields == {"assignee", "reporter", "creator", "summary", "type",
                 "priority", "resolution", "status", "transition"}

MultiLineFields == {"description", "comment", "labels", "components", "links"}

\* C17: every file of a single-line field is served with forceTrunc set and
\* every file of a multi-line field with forceTrunc cleared, so that after the
\* first write of a session to a single-line field the buffer holds the
\* written bytes and nothing of the content the file was seeded with.
C17_ScalarFieldsTruncate ==
    \A c \in Clients :
        /\ fs[c].st # "none" =>
               /\ fs[c].file \in ScalarFields => fs[c].forceTrunc
               /\ fs[c].file \in MultiLineFields => ~fs[c].forceTrunc
        /\ (last.op = "write" /\ last.who = c /\ fs[c].file \in ScalarFields
               /\ last.out.first) => fs[c].buf = last.out.data

RECURSIVE StripTrailingNewlines(_)
\* s without the newlines at its end.
StripTrailingNewlines(s) ==
    IF s # Empty /\ s[Len(s)] = NL
      THEN StripTrailingNewlines(SubSeq(s, 1, Len(s) - 1))
      ELSE s

\* C18: the value a close hands to the tracker for a single-line field is the
\* buffer without its trailing newlines, a newline inside it being kept.
C18_OnlyTrailingNewlinesStripped ==
    \A c \in Clients :
        (last.op = "close" /\ last.who = c /\ lastCall.name = "SetFieldInIssue"
            /\ fs[c].file \in ScalarFields) =>
                lastCall.body = StripTrailingNewlines(fs[c].buf)

\* C19: a Walk seeds the client's buffer from what the tracker holds at that
\* moment; a step of one client leaves the other client's file as it is; and
\* a commit the tracker accepts sets the field to that client's value,
\* whatever was committed since the client's Walk.
C19_LastCommitWins ==
    [][\A c \in Clients :
          /\ (last'.op = "walk" /\ last'.who = c /\ last'.res = "closesaver") =>
                 fs'[c].buf = remote[fs'[c].file] \o <<NL>>
          /\ last'.who = c => \A d \in Clients \ {c} :
                 /\ fs'[d].buf = fs[d].buf
                 /\ fs'[d].st = fs[d].st
          /\ (last'.op = "close" /\ last'.who = c /\ fs[c].mode = "w"
                 /\ lastCall'.ans = "ok") =>
                 remote'[fs[c].file] =
                     IF fs[c].file = "description" THEN fs[c].buf
                     ELSE StripNewlines(fs[c].buf)
    ]_vars

\* C19 witness: c2 walked to the field before c1 committed "x" to it, and c2's
\* later close has replaced "x" by the value c2 made from what it read before.
C19_Witness ==
    /\ last.op = "close" /\ last.who = "c2" /\ last.res = "ok"
    /\ fs["c2"].file = "summary" /\ fs["c2"].stale /\ fs["c2"].wrote
    /\ fs["c2"].seed = <<"u", "v", NL>>
    /\ fs["c1"].st = "closed" /\ fs["c1"].buf = <<"x", "v", NL>>
    /\ remote["summary"] = StripNewlines(fs["c2"].buf)
    /\ remote["summary"] # <<"x", "v">>

(***************************************************************************)
(* Claims about the mode of an IssueView, checked under SpecFile.          *)
(***************************************************************************)
\* C20: once newIssue is false it stays false; while it is false issueNo is
\* a key CreateIssue gave; and every Walk and List that finds it false is
\* served in normal mode: the normal file set, every file of it fetched from
\* the tracker under issueNo.
C20_ModeIsMonotone ==
    [][/\ ~newIssue => ~newIssue'
       /\ ~newIssue' => (issueNo' # Empty /\ \E n \in 1..nCreate' : issueNo' = KeyOf(n))
       /\ (~newIssue /\ last'.who = "issueview" /\ last'.op = "walk") =>
              IF last'.arg \in normalFiles \cup normalDirs
                THEN /\ lastCall'.name \in {"GetIssue", "GetTransitionsForIssue"}
                     /\ lastCall'.key = issueNo
                     /\ last'.res # "NotFound"
                ELSE last'.res = "NotFound" /\ lastCall'.name = "none"
       /\ (~newIssue /\ last'.who = "issueview" /\ last'.op = "list") =>
              last'.out = normalFiles \cup normalDirs
    ]_vars

\* C20 witness: after the commit the Walk to `key`, a file only the normal
\* mode has, fetched the issue under the key CreateIssue gave.
C20_Witness ==
    /\ ~newIssue /\ issueNo = KeyOf(1)
    /\ last.who = "issueview" /\ last.op = "walk" /\ last.arg = "key"
    /\ last.res = "file"
    /\ lastCall.name = "GetIssue" /\ lastCall.key = KeyOf(1)

(***************************************************************************)
(* Claims about the draft of a new issue, checked under SpecDraft.         *)
(***************************************************************************)
\* No IssueView of the list has been committed yet.
AllDrafts == \A i \in 1..Len(dl.views) : dl.views[i].newIssue

\* C21: the draft of a not-yet-committed issue belongs to the issue list's
\* entry `new`, not to one Walk of it: a draft file reached through a Walk of
\* `new` that came after the closes made through the other Walks of `new`
\* is seeded with the value closed into that file last, through whichever
\* Walk, and `commit` written there reads those same values.
C21_DraftSharedAcrossWalks ==
    \A c \in Clients :
        (AllDrafts /\ last.who = c /\ dc[c].view # 0 /\ dl.fresh[dc[c].view]) =>
            /\ (last.op = "walk" /\ last.arg \in draftFiles) =>
                   last.out = dl.shared[last.arg]
            /\ (last.op = "ctlwrite" /\ dc[c].pos = "read") =>
                   /\ dc[c].loc.summary = StripNewlines(dl.shared["summary"])
                   /\ dc[c].loc.project = StripNewlines(dl.shared["project"])

(***************************************************************************)
(* Claims about List and Walk of one view, checked under SpecNodes.        *)
(***************************************************************************)
\* The entries the view's latest listing gave under the name.
ListedAs(view, name) ==
    IF nv.view = view THEN { e \in nv.entries : e.name = name } ELSE {}

\* C22: a Walk to a name that the view's List returned in the same state is
\* never answered NotFound, and when the tracker answers it returns a node
\* that is a directory exactly when the List entry has the directory flag.
C22_ListedNamesWalkAsListed ==
    \A e \in ListedAs(last.who, last.arg) :
        last.op = "walk" =>
            /\ last.res # "NotFound"
            /\ lastCall.ans = "ok" =>
                   /\ last.res \in {"dir", "file"}
                   /\ (last.res = "dir") <=> e.dir

(***************************************************************************)
(* Claims about the close of a `links` file whatever issue the Walk        *)
(* fetched, checked under SpecLinks.                                       *)
(***************************************************************************)
\* C24: every close of a written `links` file returns a result and does not
\* fault, whether the issue the Walk fetched had fields or not.
C24_LinksCloseReturns ==
    /\ lk.st # "faulted"
    /\ (last.op = "close" /\ last.arg = "links") => last.res # "fault"

(***************************************************************************)
(* Claims about the mutexes, checked under SpecLocks.                      *)
(***************************************************************************)
\* The mutexes a request holds.
HeldBy(p) == { l \in LockIds : holder[l] = p }

\* The request can take its next step now.
CanStep(p) ==
    /\ Running(p)
    /\ NextEv(p).k = "lock" => holder[LockOf(p, NextEv(p))] = "none"

\* C23: no interleaving of the handlers deadlocks: whenever a request is
\* running, some running request can take a step; a request that has
\* returned holds no mutex and one that unlocks holds what it unlocks; a
\* request about to lock holds no mutex (neither another one nor the one it
\* asks for); and a request about to call the tracker holds no mutex.
C23_LocksNeverDeadlock ==
    /\ (\E p \in Procs : Running(p)) => \E p \in Procs : CanStep(p)
    /\ \A p \in Procs :
          /\ ~Running(p) => HeldBy(p) = {}
          /\ Running(p) =>
                /\ NextEv(p).k = "unlock" => HeldBy(p) = {LockOf(p, NextEv(p))}
                /\ NextEv(p).k \in {"lock", "call"} => HeldBy(p) = {}

\* C23 witness: one request is inside the root's critical section of the
\* `search` command, holding searchLock, while the other waits for
\* searchLock in JiraView.Walk and cannot step.
C23_Witness ==
    /\ th["p1"].op = "SearchCmd" /\ holder[<<"searchLock", "root">>] = "p1"
    /\ th["p2"].op = "JiraViewWalk" /\ NextEv("p2").k = "lock"
    /\ ~CanStep("p2")

====
